---- MODULE Spec2Model ----
(***************************************************************************)
(* Model of the Icarus network Model-View-Controller                       *)
(* (src/icarus/execution/network.py) and of the execution loop             *)
(* (src/icarus/execution/engine.py).                                       *)
(*                                                                         *)
(* NetworkModel fields are the variables, NetworkController methods are    *)
(* the actions, NetworkView methods are operators over the variables.      *)
(* A Python exception raised by a method is recorded in err; the state     *)
(* changes the method made before raising are kept, as in the program.     *)
(***************************************************************************)
EXTENDS Integers, Sequences, FiniteSets, TLC

\* ------------------------------------------------------------------------
\* Bounds and universes
\* ------------------------------------------------------------------------
\* Maximum number of controller calls explored in one behaviour.
MaxOps == 3

\* Maximum number of topology edits explored where paths are recomputed.
MaxPathOps == 2

Nodes == 0 .. 3
NoNode == -1

\* ------------------------------------------------------------------------
\* Python dict helpers (a dict is a function whose DOMAIN is its key set)
\* ------------------------------------------------------------------------
EmptyDict == [x \in {} |-> 0]

Put(d, k, val) == (k :> val) @@ d

\* The dict {k: d[k] for k in keys}
RECURSIVE Restrict(_, _)
Restrict(d, keys) ==
    IF keys = {} THEN EmptyDict
    ELSE LET k == CHOOSE x \in keys : TRUE
         IN  (k :> d[k]) @@ Restrict(d, keys \ {k})

Drop(d, k) == Restrict(d, (DOMAIN d) \ {k})

RECURSIVE Reverse(_)
Reverse(s) == IF s = <<>> THEN <<>> ELSE Append(Reverse(Tail(s)), Head(s))

SeqToSet(s) == {s[i] : i \in 1 .. Len(s)}

InSeq(x, s) == \E i \in 1 .. Len(s) : s[i] = x

RemoveFromSeq(s, x) == SelectSeq(s, LAMBDA y : y # x)

\* list.append(x) when x is not already present (Graph.add_node keeps order)
AppendNew(s, x) == IF InSeq(x, s) THEN s ELSE Append(s, x)

Edge(u, v) == {u, v}

\* ------------------------------------------------------------------------
\* State
\* ------------------------------------------------------------------------
VARIABLES
    topology_nodes,          \* model.topology: nodes, in insertion order
    topology_attr,           \* model.topology.node[v]: the stack name of v
    topology_edge,           \* model.topology.edge: {u,v} -> link attributes
    link_delay,              \* model.link_delay: (u,v) -> delay
    link_type,               \* model.link_type: (u,v) -> type
    shortest_path,           \* model.shortest_path[u][v]
    cache,                   \* model.cache: node -> cache object
    local_cache,             \* model.local_cache
    source_node,             \* model.source_node: node -> list of contents
    content_source,          \* model.content_source: content -> list of nodes
    removed_nodes,           \* model.removed_nodes
    disconnected_neighbors,  \* model.disconnected_neighbors
    removed_links,           \* model.removed_links: (u,v) -> link attributes
    removed_sources,         \* model.removed_sources
    removed_caches,          \* model.removed_caches
    removed_local_caches,    \* model.removed_local_caches
    err,                     \* exception raised by the last call, or "none"
    lastOp,                  \* the last controller call and its arguments
    nOps,                    \* number of calls made so far
    rt,                      \* history: remove_node/restore_node round trip
    manual,                  \* history: links removed by explicit remove_link
    indep,                   \* history: per removed node, links removed before
    casc,                    \* history: per removed node, links it cascaded
    session,                 \* controller.session: flow id -> session entry
    sess_content,            \* controller.sess_content
    collector,               \* controller.collector is not None
    sink,                    \* notifications sent to the collector, in order
    ret,                     \* value returned by the last call
    node_labels,             \* model.node_labels: node -> Counter of labels
    labels_sources,          \* model.labels_sources: label -> Counter of nodes
    answer,                  \* value returned by the last NetworkView query
    pair,                    \* history: start_session / end_session pair
    scen,                    \* history: progress of the path scenario
    putOK,                   \* history: (node, x) put and not evicted since
    putKept,                 \* history: same, and no reserve_local_cache since
    resv,                    \* history: capacities before reserve_local_cache
    repoStorage,             \* model.repoStorage: node -> stored message ids
    contents,                \* model.contents: node -> content ids it holds
    eventQ,                  \* model.eventQ: the heap, as the Python list
    qlog,                    \* history: queue before the call, event popped
    compSpot,                \* model.compSpot: node -> computation spot
    nviews,                  \* number of NetworkView objects created
    view_attrs,              \* attributes of the latest NetworkView object
    vsnap,                   \* history: state before the last view call
    eng,                     \* exec_experiment: the position of the main loop
    rng,                     \* state of the global generator of module random
    built,                   \* containers constructed so far, in order
    twin,                    \* the same edits run with recomputation each time
    replication_hops,        \* model.replication_hops: content -> hops
    replication_overheads,   \* model.replication_overheads: content -> bytes
    request_labels,          \* model.request_labels: node -> label counts
    request_labels_nodes     \* model.request_labels_nodes: label -> node counts

topoVars == <<topology_nodes, topology_attr, topology_edge, link_delay,
              link_type, shortest_path, removed_nodes, disconnected_neighbors,
              removed_links, removed_sources, removed_caches,
              removed_local_caches>>

storeVars == <<cache, local_cache, source_node, content_source>>

ctlVars == <<session, sess_content, collector, sink, ret>>

labelVars == <<node_labels, labels_sources, answer>>

histVars == <<rt, manual, indep, casc>>

ctlHist == <<pair, scen, putOK, putKept, resv>>

repoVars == <<repoStorage, contents>>

queueVars == <<eventQ, qlog>>

viewVars == <<compSpot, nviews, view_attrs, vsnap>>

runVars == <<eng, rng, built, twin>>

replVars == <<replication_hops, replication_overheads>>

reqVars == <<request_labels, request_labels_nodes>>

extVars == <<repoVars, queueVars, viewVars, runVars, replVars, reqVars>>

vars == <<topoVars, storeVars, ctlVars, labelVars, err, lastOp, nOps,
          histVars, ctlHist, extVars>>

\* ------------------------------------------------------------------------
\* Shortest paths: nx.all_pairs_dijkstra_path and symmetrify_paths
\* ------------------------------------------------------------------------
\* All simple node sequences over the node universe.
AllSimple ==
    UNION {{p \in [1 .. n -> Nodes] :
               \A i, j \in 1 .. n : i # j => p[i] # p[j]} :
           n \in 1 .. Cardinality(Nodes)}

\* The simple node sequences from u to v
SimpleBetween ==
    Restrict([pr \in Nodes \X Nodes |->
                 {p \in AllSimple : p[1] = pr[1] /\ p[Len(p)] = pr[2]}],
             Nodes \X Nodes)

\* The simple paths from u to v in the graph with node set N and edge set E
PathsBetween(N, E, u, v) ==
    {p \in SimpleBetween[<<u, v>>] :
        /\ \A i \in 1 .. Len(p) : p[i] \in N
        /\ \A i \in 1 .. Len(p) - 1 : Edge(p[i], p[i + 1]) \in E}

ShortestBetween(N, E, u, v) ==
    LET PB == PathsBetween(N, E, u, v)
    IN  {p \in PB : \A q \in PB : Len(p) <= Len(q)}

\* p precedes q (same length) in lexicographic order, or p = q
LexLeq(p, q) ==
    \/ p = q
    \/ \E i \in 1 .. Len(p) :
          /\ p[i] < q[i]
          /\ \A j \in 1 .. i - 1 : p[j] = q[j]

\* The path Dijkstra reports from u to v.  Links have unit weight
\* (fnss.set_weights_constant(topology, 1.0)).  Which of several equally
\* short paths is reported depends on the adjacency order of the graph; hi
\* selects the lexicographically greatest or least of them.
DijkstraPath(N, E, u, v, hi) ==
    LET S == ShortestBetween(N, E, u, v)
    IN  CHOOSE p \in S :
            \A q \in S : IF hi THEN LexLeq(q, p) ELSE LexLeq(p, q)

\* One Dijkstra run: u -> (v -> path) for the nodes v of todo reachable from u
RECURSIVE DijkstraRow(_, _, _, _, _)
DijkstraRow(N, E, u, todo, hi) ==
    IF todo = {} THEN EmptyDict
    ELSE LET v == CHOOSE x \in todo : TRUE
         IN  (IF PathsBetween(N, E, u, v) # {}
              THEN v :> DijkstraPath(N, E, u, v, hi)
              ELSE EmptyDict) @@ DijkstraRow(N, E, u, todo \ {v}, hi)

RECURSIVE DijkstraRows(_, _, _, _)
DijkstraRows(N, E, todo, H) ==
    IF todo = {} THEN EmptyDict
    ELSE LET u == CHOOSE x \in todo : TRUE
         IN  (u :> DijkstraRow(N, E, u, N, H[u]))
                 @@ DijkstraRows(N, E, todo \ {u}, H)

\* The tie-breakings explored: the set of sources whose Dijkstra run reports
\* the greatest of the equally short paths
HiSources == {{}, {2, 3}}

\* Every graph over the node universe, with every tie-breaking
Graphs ==
    {g \in (SUBSET Nodes)
               \X (SUBSET {e \in SUBSET Nodes : Cardinality(e) = 2})
               \X HiSources :
        \A e \in g[2] : e \subseteq g[1]}

\* Dijkstra's result for every graph, computed once: pairs <<graph, result>>
DijkstraTable ==
    {<<g, DijkstraRows(g[1], g[2], g[1], [n \in Nodes |-> n \in g[3]])>> :
        g \in Graphs}

\* dict(nx.all_pairs_dijkstra_path(G)): u -> (v -> path), reachable v only.
\* H is the tie-breaking of this call.
all_pairs_dijkstra_path(nodes, E, H) ==
    (CHOOSE t \in DijkstraTable : t[1] = <<SeqToSet(nodes), E, H>>)[2]

\* The double loop of symmetrify_paths, pair k of the n*n pairs (u, v) taken
\* in dict order; each assignment reads the dict as modified so far.
RECURSIVE SymLoop(_, _, _)
SymLoop(sp, order, k) ==
    LET n == Len(order)
    IN  IF k > n * n
        THEN [ok |-> TRUE, sp |-> sp]
        ELSE LET u == order[((k - 1) \div n) + 1]
                 v == order[((k - 1) % n) + 1]
             IN  IF u \notin DOMAIN sp[v]
                 THEN [ok |-> FALSE, sp |-> sp]      \* KeyError
                 ELSE SymLoop([sp EXCEPT ![u] = Put(sp[u], v, Reverse(sp[v][u]))],
                              order, k + 1)

symmetrify_paths_keep(sp, order) == [ok |-> TRUE, sp |-> sp]

symmetrify_paths(sp, order) == SymLoop(sp, order, 1)

\* ------------------------------------------------------------------------
\* The part of NetworkModel the fault-injection methods work on, as a record
\* ------------------------------------------------------------------------
M == [nodes |-> topology_nodes, attr |-> topology_attr,
      edge |-> topology_edge, sp |-> shortest_path,
      cache |-> cache, local_cache |-> local_cache,
      source_node |-> source_node,
      removed_nodes |-> removed_nodes,
      disconnected_neighbors |-> disconnected_neighbors,
      removed_links |-> removed_links,
      removed_sources |-> removed_sources,
      removed_caches |-> removed_caches,
      removed_local_caches |-> removed_local_caches,
      err |-> "none"]

SetM(m) ==
    /\ topology_nodes' = m.nodes
    /\ topology_attr' = m.attr
    /\ topology_edge' = m.edge
    /\ shortest_path' = m.sp
    /\ cache' = m.cache
    /\ local_cache' = m.local_cache
    /\ source_node' = m.source_node
    /\ removed_nodes' = m.removed_nodes
    /\ disconnected_neighbors' = m.disconnected_neighbors
    /\ removed_links' = m.removed_links
    /\ removed_sources' = m.removed_sources
    /\ removed_caches' = m.removed_caches
    /\ removed_local_caches' = m.removed_local_caches
    /\ err' = m.err

\* shortest_path = nx.all_pairs_dijkstra_path(topology);
\* model.shortest_path = symmetrify_paths(shortest_path)
set_shortest_path(m, r) ==
    IF r.ok THEN [m EXCEPT !.sp = r.sp] ELSE [m EXCEPT !.err = "KeyError"]

recompute(m, H) ==
    set_shortest_path(m,
        symmetrify_paths(all_pairs_dijkstra_path(m.nodes, DOMAIN m.edge, H),
                         m.nodes))

\* Graph.add_edge(u, v, **attr): the endpoints are added when missing
add_edge(m, u, v, attr) ==
    [m EXCEPT !.nodes = AppendNew(AppendNew(m.nodes, u), v),
              !.attr = [x \in (DOMAIN m.attr) \cup {u, v} |->
                           IF x \in DOMAIN m.attr THEN m.attr[x] ELSE ""],
              !.edge = Put(m.edge, Edge(u, v), attr)]

\* remove_link that recomputes the paths whatever the flag is
remove_link_recompute(m, u, v, recompute_paths, H) ==
    recompute([m EXCEPT !.removed_links =
                            Put(m.removed_links, <<u, v>>, m.edge[Edge(u, v)]),
                        !.edge = Drop(m.edge, Edge(u, v))], H)

remove_link(m, u, v, recompute_paths, H) ==
    LET m1 == [m EXCEPT !.removed_links = Put(m.removed_links, <<u, v>>, m.edge[Edge(u, v)]),
                        !.edge = Drop(m.edge, Edge(u, v))]
    IN  IF recompute_paths THEN recompute(m1, H) ELSE m1

restore_link(m, u, v, recompute_paths, H) ==
    LET m1 == add_edge([m EXCEPT !.removed_links = Drop(m.removed_links, <<u, v>>)],
                       u, v, m.removed_links[<<u, v>>])
    IN  IF recompute_paths THEN recompute(m1, H) ELSE m1

rewire_link(m, u, v, up, vp, recompute_paths, H) ==
    LET link == m.edge[Edge(u, v)]
        m1 == add_edge([m EXCEPT !.edge = Drop(m.edge, Edge(u, v))], up, vp, link)
    IN  IF recompute_paths THEN recompute(m1, H) ELSE m1

\* for u in disconnected_neighbors[v]: remove_link(v, u, False)
RECURSIVE RemoveLinks(_, _, _)
RemoveLinks(m, v, todo) ==
    IF todo = {} THEN m
    ELSE LET u == CHOOSE x \in todo : TRUE
         IN  RemoveLinks(remove_link(m, v, u, FALSE, {}), v, todo \ {u})

\* removed_nodes[v] = topology.node[v];
\* disconnected_neighbors[v] = set(topology.edge[v].keys())
mark_removed(m, v, neighbors) ==
    [m EXCEPT !.removed_nodes = Put(m.removed_nodes, v, m.attr[v]),
              !.disconnected_neighbors =
                  Put(m.disconnected_neighbors, v, neighbors)]

\* topology.remove_node(v)
topology_remove_node(m, v) ==
    [m EXCEPT !.nodes = RemoveFromSeq(m.nodes, v), !.attr = Drop(m.attr, v)]

\* removed_caches[v] = cache[v], the cache staying in the active map
pop_cache_copy(m, v) ==
    IF v \in DOMAIN m.cache
    THEN [m EXCEPT !.removed_caches = Put(m.removed_caches, v, m.cache[v])]
    ELSE m

\* if v in cache: removed_caches[v] = cache.pop(v)
pop_cache(m, v) ==
    IF v \in DOMAIN m.cache
    THEN [m EXCEPT !.removed_caches = Put(m.removed_caches, v, m.cache[v]),
                   !.cache = Drop(m.cache, v)]
    ELSE m

\* if v in local_cache: removed_local_caches[v] = local_cache.pop(v)
pop_local_cache(m, v) ==
    IF v \in DOMAIN m.local_cache
    THEN [m EXCEPT !.removed_local_caches =
                       Put(m.removed_local_caches, v, m.local_cache[v]),
                   !.local_cache = Drop(m.local_cache, v)]
    ELSE m

\* if v in source_node:
\*     removed_sources[v] = source_node.pop(v)
\*     for content in removed_sources[v]: self.model.countent_source.pop(..)
\* NetworkModel has no attribute countent_source: the first iteration raises
pop_source(m, v) ==
    IF v \in DOMAIN m.source_node
    THEN [m EXCEPT !.removed_sources =
                       Put(m.removed_sources, v, m.source_node[v]),
                   !.source_node = Drop(m.source_node, v),
                   !.err = IF Len(m.source_node[v]) > 0
                           THEN "AttributeError" ELSE "none"]
    ELSE m

\* The trailing "if recompute_paths:" of a method, not reached after a raise
finish(m, recompute_paths, H) ==
    IF m.err = "none" /\ recompute_paths THEN recompute(m, H) ELSE m

Neighbors(edges, v) == {u \in Nodes : Edge(v, u) \in DOMAIN edges}

remove_node(m, v, recompute_paths, H) ==
    finish(
        pop_source(
            pop_local_cache(
                pop_cache(
                    topology_remove_node(
                        RemoveLinks(mark_removed(m, v, Neighbors(m.edge, v)),
                                    v, Neighbors(m.edge, v)),
                        v),
                    v),
                v),
            v),
        recompute_paths, H)

restore_link_if_removed(m, v, u) ==
    IF <<v, u>> \in DOMAIN m.removed_links
    THEN restore_link(m, v, u, FALSE, {})
    ELSE m

\* for u in disconnected_neighbors[v]:
\*     if (v, u) in removed_links: restore_link(v, u, False)
RECURSIVE RestoreLinks(_, _, _)
RestoreLinks(m, v, todo) ==
    IF todo = {} THEN m
    ELSE LET u == CHOOSE x \in todo : TRUE
         IN  RestoreLinks(restore_link_if_removed(m, v, u), v, todo \ {u})

restore_node_links_all(m, v) ==
    RestoreLinks(m, v, {u \in Nodes : <<v, u>> \in DOMAIN m.removed_links})

restore_node_links(m, v) == RestoreLinks(m, v, m.disconnected_neighbors[v])

\* topology.add_node(v, **removed_nodes.pop(v))
topology_add_node(m, v) ==
    [m EXCEPT !.nodes = AppendNew(m.nodes, v),
              !.attr = Put(m.attr, v, m.removed_nodes[v]),
              !.removed_nodes = Drop(m.removed_nodes, v)]

\* disconnected_neighbors.pop(v)
pop_neighbors(m, v) ==
    [m EXCEPT !.disconnected_neighbors = Drop(m.disconnected_neighbors, v)]

\* if v in removed_caches: cache[v] = removed_caches.pop(v)
push_cache(m, v) ==
    IF v \in DOMAIN m.removed_caches
    THEN [m EXCEPT !.cache = Put(m.cache, v, m.removed_caches[v]),
                   !.removed_caches = Drop(m.removed_caches, v)]
    ELSE m

\* if v in removed_local_caches: local_cache[v] = removed_local_caches.pop(v)
push_local_cache(m, v) ==
    IF v \in DOMAIN m.removed_local_caches
    THEN [m EXCEPT !.local_cache =
                       Put(m.local_cache, v, m.removed_local_caches[v]),
                   !.removed_local_caches = Drop(m.removed_local_caches, v)]
    ELSE m

\* if v in removed_sources:
\*     source_node[v] = removed_sources.pop(v)
\*     for content in source_node[v]: self.model.countent_source[content] = v
\* NetworkModel has no attribute countent_source: the first iteration raises
push_source(m, v) ==
    IF v \in DOMAIN m.removed_sources
    THEN [m EXCEPT !.source_node =
                       Put(m.source_node, v, m.removed_sources[v]),
                   !.removed_sources = Drop(m.removed_sources, v),
                   !.err = IF Len(m.removed_sources[v]) > 0
                           THEN "AttributeError" ELSE "none"]
    ELSE m

restore_node(m, v, recompute_paths, H) ==
    finish(
        push_source(
            push_local_cache(
                push_cache(
                    pop_neighbors(
                        restore_node_links(topology_add_node(m, v), v),
                        v),
                    v),
                v),
            v),
        recompute_paths, H)

\* ------------------------------------------------------------------------
\* Construction (NetworkModel.__init__) of the example topologies
\* ------------------------------------------------------------------------
Prefs(recompute_paths) == IF recompute_paths THEN HiSources ELSE {{}}

Link(d, t) == [delay |-> d, type |-> t]

\* Cache objects of the cache policy: capacity and the items held
CacheObj(n, items) == [maxlen |-> n, items |-> items]

\* link_delay / link_type of an undirected topology, stored in both
\* directions
BothDirections(edges, field) ==
    [pr \in {<<u, v>> \in Nodes \X Nodes : Edge(u, v) \in DOMAIN edges
                                           /\ u # v} |->
        IF field = "delay" THEN edges[Edge(pr[1], pr[2])].delay
        ELSE edges[Edge(pr[1], pr[2])].type]

\* Ring 0 - 1 - 3 - 2 - 0: receiver 0, caching routers 1 and 2, source 3
RingNodes == <<0, 1, 2, 3>>

RingAttr == [n \in Nodes |->
                IF n = 0 THEN "receiver" ELSE IF n = 3 THEN "source"
                ELSE "router"]

RingEdges ==
    [e \in {{0, 1}, {1, 3}, {0, 2}, {2, 3}} |->
        IF e = {0, 1} THEN Link(1, "internal")
        ELSE IF e = {0, 2} THEN Link(2, "internal")
        ELSE IF e = {1, 3} THEN Link(3, "external")
        ELSE Link(5, "external")]

\* cache_size of the caching routers
RingCacheSize == [n \in {1, 2} |-> IF n = 1 THEN 3 ELSE 1]

RtIdle == [phase |-> "idle", node |-> NoNode, failed |-> FALSE,
           nodes |-> {}, edge |-> EmptyDict, cache |-> EmptyDict,
           local_cache |-> EmptyDict, source_node |-> EmptyDict,
           content_source |-> EmptyDict]

\* A call and its arguments: nodes u and v, recompute_paths, content x and
\* flow id f
Call(op, u, v, rp, x, f) ==
    [op |-> op, u |-> u, v |-> v, rp |-> rp, x |-> x, f |-> f]

OpRec(op, u, v, rp) == Call(op, u, v, rp, "", "")

PairIdle == [phase |-> "idle", f |-> "", before |-> EmptyDict]

\* NetworkController.__init__, with the collector attached or not
InitCtl(attached) ==
    /\ session = EmptyDict
    /\ sess_content = ""
    /\ collector = attached
    /\ sink = <<>>
    /\ ret = "None"
    /\ pair = PairIdle
    /\ scen = [stage |-> 0, raised |-> FALSE, got |-> "None"]
    /\ putOK = {}
    /\ putKept = {}
    /\ resv = EmptyDict

\* No labelled content: the label indices stay empty
NoAnswer == [kind |-> "none"]

InitNoLabels ==
    /\ node_labels = EmptyDict
    /\ labels_sources = EmptyDict
    /\ answer = NoAnswer

\* No persistent storage is modelled where no claim reads it
InitNoRepo ==
    /\ repoStorage = EmptyDict
    /\ contents = EmptyDict

\* self.eventQ = []
NoEvent == [time |-> [k |-> "none", v |-> 0]]

InitQueue ==
    /\ eventQ = <<>>
    /\ qlog = [before |-> <<>>, popped |-> NoEvent, time |-> NoEvent.time]

\* No computation spot and no view yet
InitNoView ==
    /\ compSpot = EmptyDict
    /\ nviews = 0
    /\ view_attrs = {}
    /\ vsnap = <<>>

\* No experiment is being executed; the generator is in its start state
NoRun == [pos |-> 0, n |-> 0, interim |-> 0, final |-> 0, calls |-> 0,
          ordered |-> TRUE, warmup |-> 0, done |-> FALSE]

InitNoRun ==
    /\ eng = NoRun
    /\ rng = 0
    /\ built = <<>>
    /\ twin = <<>>

\* self.replication_hops = Counter(); self.replication_overheads = {}
InitNoRepl ==
    /\ replication_hops = EmptyDict
    /\ replication_overheads = EmptyDict

\* self.request_labels_nodes = {}; self.request_labels = {}
InitNoReq ==
    /\ request_labels = EmptyDict
    /\ request_labels_nodes = EmptyDict

InitExt ==
    InitNoRepo /\ InitQueue /\ InitNoView /\ InitNoRun /\ InitNoRepl
        /\ InitNoReq

InitHist ==
    /\ err = "none"
    /\ lastOp = OpRec("init", NoNode, NoNode, TRUE)
    /\ nOps = 0
    /\ rt = RtIdle
    /\ manual = {}
    /\ indep = [n \in Nodes |-> {}]
    /\ casc = [n \in Nodes |-> {}]

InitFaultState ==
    /\ removed_nodes = EmptyDict
    /\ disconnected_neighbors = EmptyDict
    /\ removed_links = EmptyDict
    /\ removed_sources = EmptyDict
    /\ removed_caches = EmptyDict
    /\ removed_local_caches = EmptyDict

InitRing ==
    /\ topology_nodes = RingNodes
    /\ topology_attr = RingAttr
    /\ topology_edge = RingEdges
    /\ link_delay = BothDirections(RingEdges, "delay")
    /\ link_type = BothDirections(RingEdges, "type")
    /\ \E H \in Prefs(TRUE) :
          shortest_path =
              symmetrify_paths(
                  all_pairs_dijkstra_path(RingNodes, DOMAIN RingEdges, H),
                  RingNodes).sp
    /\ cache = [n \in {1, 2} |-> CacheObj(RingCacheSize[n], {})]
    /\ local_cache = EmptyDict
    /\ source_node = [n \in {3} |-> <<"A", "B">>]
    /\ content_source = [c \in {"A", "B"} |-> <<3>>]
    /\ InitFaultState

InitTopo ==
    InitRing /\ InitHist /\ InitCtl(FALSE) /\ InitNoLabels /\ InitExt

\* ------------------------------------------------------------------------
\* Fault injection and recovery (NetworkController)
\* ------------------------------------------------------------------------
Key(k) == Edge(k[1], k[2])

TopoStep(m, op) ==
    /\ SetM(m)
    /\ lastOp' = op
    /\ nOps' = nOps + 1
    /\ UNCHANGED <<content_source, link_delay, link_type>>
    /\ UNCHANGED <<ctlVars, labelVars, ctlHist, extVars>>

RemoveLink(u, v, rp) ==
    /\ u # v
    /\ Edge(u, v) \in DOMAIN topology_edge
    /\ \E H \in Prefs(rp) :
          TopoStep(remove_link(M, u, v, rp, H),
                   OpRec("remove_link", u, v, rp))
    /\ rt' = RtIdle
    /\ manual' = manual \cup {<<u, v>>}
    /\ UNCHANGED <<indep, casc>>

RestoreLink(u, v, rp) ==
    /\ <<u, v>> \in DOMAIN removed_links
    /\ \E H \in Prefs(rp) :
          TopoStep(restore_link(M, u, v, rp, H),
                   OpRec("restore_link", u, v, rp))
    /\ rt' = RtIdle
    /\ manual' = manual \ {<<u, v>>}
    /\ indep' = [w \in Nodes |-> indep[w] \ {<<u, v>>}]
    /\ casc' = [w \in Nodes |-> IF w = u THEN casc[w] \ {v} ELSE casc[w]]

RewireLink(u, v, up, vp, rp) ==
    /\ u # v
    /\ Edge(u, v) \in DOMAIN topology_edge
    /\ up # vp
    /\ \E H \in Prefs(rp) :
          TopoStep(rewire_link(M, u, v, up, vp, rp, H),
                   OpRec("rewire_link", up, vp, rp))
    /\ rt' = RtIdle
    /\ indep' = [w \in Nodes |-> {k \in indep[w] : Key(k) # Edge(up, vp)}]
    /\ UNCHANGED <<manual, casc>>

Snapshot(phase, v, failed) ==
    [phase |-> phase, node |-> v, failed |-> failed,
     nodes |-> SeqToSet(topology_nodes), edge |-> topology_edge,
     cache |-> cache, local_cache |-> local_cache,
     source_node |-> source_node, content_source |-> content_source]

RemoveNode(v, rp) ==
    /\ InSeq(v, topology_nodes)
    /\ v \notin DOMAIN removed_nodes
    /\ \E H \in Prefs(rp) :
          LET m == remove_node(M, v, rp, H)
          IN  /\ TopoStep(m, OpRec("remove_node", v, v, rp))
              /\ rt' = Snapshot("removed", v, m.err # "none")
    /\ indep' = [indep EXCEPT ![v] =
                    {k \in manual : /\ v \in Key(k)
                                    /\ k \in DOMAIN removed_links
                                    /\ Key(k) \notin DOMAIN topology_edge}]
    /\ casc' = [casc EXCEPT ![v] =
                   {u \in Nodes : Edge(v, u) \in DOMAIN topology_edge}]
    /\ UNCHANGED manual

RestoreNode(v, rp) ==
    /\ v \in DOMAIN removed_nodes
    /\ \E H \in Prefs(rp) :
          LET m == restore_node(M, v, rp, H)
          IN  /\ TopoStep(m, OpRec("restore_node", v, v, rp))
              /\ rt' = IF rt.phase = "removed" /\ rt.node = v
                       THEN [rt EXCEPT !.phase = "restored",
                                       !.failed = rt.failed \/ m.err # "none"]
                       ELSE RtIdle
    /\ UNCHANGED <<manual, indep, casc>>

\* Fault injection and recovery with recomputation deferred
NextFault ==
    \/ \E u, v \in Nodes : nOps < MaxOps /\ RemoveLink(u, v, FALSE)
    \/ \E u, v \in Nodes : nOps < MaxOps /\ RestoreLink(u, v, FALSE)
    \/ \E v \in Nodes : nOps < MaxOps /\ RemoveNode(v, FALSE)
    \/ \E v \in Nodes : nOps < MaxOps /\ RestoreNode(v, FALSE)

SpecFault == InitTopo /\ [][NextFault]_vars

\* Topology edits with and without recomputation of the shortest paths
NextPaths ==
    \/ \E u, v \in Nodes, rp \in BOOLEAN :
          nOps < MaxPathOps /\ u < v /\ RemoveLink(u, v, rp)
    \/ \E u, v \in Nodes, rp \in BOOLEAN :
          nOps < MaxPathOps /\ RestoreLink(u, v, rp)
    \/ \E u, v \in Nodes, rp \in BOOLEAN :
          \E vp \in SeqToSet(topology_nodes) \ {u, v} :
              nOps < MaxPathOps /\ u < v /\ RewireLink(u, v, u, vp, rp)
    \/ \E v \in Nodes, rp \in BOOLEAN :
          nOps < MaxPathOps /\ RemoveNode(v, rp)
    \/ \E v \in Nodes, rp \in BOOLEAN :
          nOps < MaxPathOps /\ RestoreNode(v, rp)

SpecPaths == InitTopo /\ [][NextPaths]_vars

\* ------------------------------------------------------------------------
\* Sessions, forwarding and the collector (NetworkController)
\* ------------------------------------------------------------------------
FlowIds == {"0", "1", "log", "feedback"}

Contents == {"A", "B"}

\* One notification sent to the collector
Ev(ev, u, v, f) == [ev |-> ev, u |-> u, v |-> v, f |-> f]

\* dict(timestamp=.., receiver=.., content=.., labels=.., log=.., deadline=..)
SessionEntry(receiver, content, log) ==
    [timestamp |-> 0, receiver |-> receiver, content |-> content,
     labels |-> <<>>, log |-> log, deadline |-> 0]

\* A call of the controller that leaves the network model alone
CtlStep(op) ==
    /\ lastOp' = op
    /\ nOps' = nOps + 1
    /\ UNCHANGED <<topoVars, labelVars, histVars, extVars>>

\* The scenario start_session, forward_request_path(0, 2), get_content(2, A),
\* forward_content_path(2, 0), end_session made as the first calls after
\* construction: stage counts the calls of it made so far
ScenStep(k, matches, raised, got) ==
    scen' = IF scen.stage = k - 1 /\ nOps = k - 1 /\ matches
            THEN [stage |-> k, raised |-> scen.raised \/ raised,
                  got |-> IF k = 3 THEN got ELSE scen.got]
            ELSE scen

AttachCollector ==
    /\ collector' = TRUE
    /\ err' = "none"
    /\ ret' = "None"
    /\ pair' = PairIdle
    /\ CtlStep(Call("attach_collector", NoNode, NoNode, FALSE, "", ""))
    /\ UNCHANGED <<session, sess_content, sink, storeVars, scen, putOK,
                   putKept, resv>>

DetachCollector ==
    /\ collector' = FALSE
    /\ err' = "none"
    /\ ret' = "None"
    /\ pair' = PairIdle
    /\ CtlStep(Call("detach_collector", NoNode, NoNode, FALSE, "", ""))
    /\ UNCHANGED <<session, sess_content, sink, storeVars, scen, putOK,
                   putKept, resv>>

\* The session entry is written before the collector is notified;
\* self.collector.start_session raises AttributeError when collector is None
StartSession(flow_id, receiver, content, log) ==
    /\ session' = Put(session, flow_id, SessionEntry(receiver, content, log))
    /\ sess_content' = content
    /\ IF collector
       THEN /\ sink' = Append(sink, Ev("start_session", receiver, NoNode,
                                       flow_id))
            /\ err' = "none"
       ELSE /\ sink' = sink
            /\ err' = "AttributeError"
    /\ ret' = "None"
    /\ pair' = [phase |-> "started", f |-> flow_id, before |-> session]
    /\ ScenStep(1, flow_id = "0" /\ receiver = 0 /\ content = "A" /\ log,
                ~collector, "None")
    /\ CtlStep(Call("start_session", receiver, NoNode, FALSE, content,
                    flow_id))
    /\ UNCHANGED <<collector, storeVars, putOK, putKept, resv>>

\* self.collector.end_session(...) comes before self.session.pop(flow_id, None)
EndSession(flow_id) ==
    /\ IF collector
       THEN /\ sink' = Append(sink, Ev("end_session", NoNode, NoNode, flow_id))
            /\ session' = Drop(session, flow_id)
            /\ err' = "none"
       ELSE /\ sink' = sink
            /\ session' = session
            /\ err' = "AttributeError"
    /\ ret' = "None"
    /\ pair' = IF pair.phase = "started" /\ pair.f = flow_id
               THEN [pair EXCEPT !.phase = "ended"]
               ELSE PairIdle
    /\ ScenStep(5, flow_id = "0", ~collector, "None")
    /\ CtlStep(Call("end_session", NoNode, NoNode, FALSE, "", flow_id))
    /\ UNCHANGED <<sess_content, collector, storeVars, putOK, putKept, resv>>

\* What one hop does to c = [sink, err].  self.session['log'] and
\* self.session['feedback'] index the session table, which is keyed by flow
\* id: KeyError unless a session with that flow id is live, in which case the
\* entry (a non-empty dict) counts as true.
forward_request_hop(c, u, v) ==
    IF c.err # "none" \/ ~collector THEN c
    ELSE IF "log" \notin DOMAIN session THEN [c EXCEPT !.err = "KeyError"]
    ELSE IF "feedback" \notin DOMAIN session
         THEN [sink |-> Append(c.sink, Ev("request_hop", u, v, "")),
               err |-> "KeyError"]
         ELSE [sink |-> Append(Append(c.sink, Ev("request_hop", u, v, "")),
                               Ev("content_request_labels", v, NoNode, "")),
               err |-> "none"]

\* self.session.storage_labels: a dict has no such attribute
forward_content_hop(c, u, v) ==
    IF c.err # "none" \/ ~collector THEN c
    ELSE IF "log" \notin DOMAIN session THEN [c EXCEPT !.err = "KeyError"]
    ELSE [sink |-> Append(c.sink, Ev("content_hop", u, v, "")),
          err |-> IF "feedback" \notin DOMAIN session
                  THEN "KeyError" ELSE "AttributeError"]

\* for u, v in path_links(path): self.forward_request_hop(u, v, main_path)
RECURSIVE RequestHops(_, _, _)
RequestHops(c, path, i) ==
    IF i >= Len(path) THEN c
    ELSE RequestHops(forward_request_hop(c, path[i], path[i + 1]), path,
                     i + 1)

RECURSIVE ContentHops(_, _, _)
ContentHops(c, path, i) ==
    IF i >= Len(path) THEN c
    ELSE ContentHops(forward_content_hop(c, path[i], path[i + 1]), path,
                     i + 1)

HasPath(s, t) == s \in DOMAIN shortest_path /\ t \in DOMAIN shortest_path[s]

forward_request_path(s, t) ==
    IF HasPath(s, t)
    THEN RequestHops([sink |-> sink, err |-> "none"], shortest_path[s][t], 1)
    ELSE [sink |-> sink, err |-> "KeyError"]

forward_content_path(u, v) ==
    IF HasPath(u, v)
    THEN ContentHops([sink |-> sink, err |-> "none"], shortest_path[u][v], 1)
    ELSE [sink |-> sink, err |-> "KeyError"]

ForwardStep(c) ==
    /\ sink' = c.sink
    /\ err' = c.err
    /\ ret' = "None"
    /\ pair' = PairIdle
    /\ UNCHANGED <<session, sess_content, collector, storeVars, putOK,
                   putKept, resv>>

ForwardRequestPath(s, t) ==
    /\ ForwardStep(forward_request_path(s, t))
    /\ ScenStep(2, s = 0 /\ t = 2, forward_request_path(s, t).err # "none",
                "None")
    /\ CtlStep(Call("forward_request_path", s, t, FALSE, "", ""))

ForwardContentPath(u, v) ==
    /\ ForwardStep(forward_content_path(u, v))
    /\ ScenStep(4, u = 2 /\ v = 0, forward_content_path(u, v).err # "none",
                "None")
    /\ CtlStep(Call("forward_content_path", u, v, FALSE, "", ""))

\* ------------------------------------------------------------------------
\* Caches (NetworkController) and the cache policy interface
\* ------------------------------------------------------------------------
\* Cache policy: has(id) / get(id)
cache_has(c, x) == x \in c.items

\* Cache policy: put(id) -> evicted | None.  Which item a full cache evicts
\* is the policy's choice: every item held is a possible victim.
cache_put(c, x) ==
    IF x \in c.items
    THEN {[cache |-> c, evicted |-> "None"]}
    ELSE IF Cardinality(c.items) < c.maxlen
         THEN {[cache |-> CacheObj(c.maxlen, c.items \cup {x}),
                evicted |-> "None"]}
         ELSE {[cache |-> CacheObj(c.maxlen, (c.items \ {y}) \cup {x}),
                evicted |-> y] : y \in c.items}

\* type(c)(maxlen): a new, empty cache of the same policy
new_cache(maxlen) == CacheObj(maxlen, {})

HasRoom(node) ==
    node \in DOMAIN cache
        /\ Cardinality(cache[node].items) < cache[node].maxlen

\* if node in self.model.cache: return self.model.cache[node].put(content)
PutContent(node, content) ==
    /\ IF node \in DOMAIN cache
       THEN \E o \in cache_put(cache[node], content) :
                /\ cache' = Put(cache, node, o.cache)
                /\ ret' = o.evicted
                /\ putOK' = (putOK \ {<<node, o.evicted>>})
                                \cup (IF HasRoom(node)
                                      THEN {<<node, content>>} ELSE {})
                /\ putKept' = (putKept \ {<<node, o.evicted>>})
                                  \cup (IF HasRoom(node)
                                        THEN {<<node, content>>} ELSE {})
       ELSE /\ ret' = "None"
            /\ UNCHANGED <<cache, putOK, putKept>>
    /\ err' = "none"
    /\ pair' = PairIdle
    /\ CtlStep(Call("put_content", node, NoNode, FALSE, content, ""))
    /\ UNCHANGED <<session, sess_content, collector, sink, local_cache,
                   source_node, content_source, scen, resv>>

BoolStr(b) == IF b THEN "True" ELSE "False"

get_content_no_cache(node, content) ==
    [sink |-> sink, err |-> "none",
     ret |-> BoolStr(InSeq(node, topology_nodes)
                         /\ topology_attr[node] = "source")]

\* The outcome [sink, err, ret] of get_content(node, content).
\* With a cache at the node the hit or miss is reported unconditionally
\* (AttributeError when collector is None) and the lookup result returned;
\* otherwise fnss.get_stack names the stack of the node (KeyError for a node
\* that is not in the topology, TypeError for a node without a stack).
get_content(node, content) ==
    IF node \in DOMAIN cache
    THEN IF collector
         THEN [sink |-> Append(sink,
                            Ev(IF cache_has(cache[node], content)
                               THEN "cache_hit" ELSE "cache_miss",
                               node, NoNode, "")),
               err |-> "none",
               ret |-> BoolStr(cache_has(cache[node], content))]
         ELSE [sink |-> sink, err |-> "AttributeError", ret |-> "None"]
    ELSE IF ~InSeq(node, topology_nodes)
         THEN [sink |-> sink, err |-> "KeyError", ret |-> "None"]
    ELSE IF topology_attr[node] = ""
         THEN [sink |-> sink, err |-> "TypeError", ret |-> "None"]
    ELSE IF topology_attr[node] = "source"
         THEN IF ~collector
              THEN [sink |-> sink, err |-> "none", ret |-> "True"]
              ELSE IF "log" \notin DOMAIN session
                   THEN [sink |-> sink, err |-> "KeyError", ret |-> "None"]
                   ELSE [sink |-> Append(sink,
                                      Ev("server_hit", node, NoNode, "")),
                         err |-> "none", ret |-> "True"]
    ELSE [sink |-> sink, err |-> "none", ret |-> "False"]

GetContent(node, content) ==
    /\ sink' = get_content(node, content).sink
    /\ err' = get_content(node, content).err
    /\ ret' = get_content(node, content).ret
    /\ pair' = PairIdle
    /\ ScenStep(3, node = 2 /\ content = "A",
                get_content(node, content).err # "none",
                get_content(node, content).ret)
    /\ CtlStep(Call("get_content", node, NoNode, FALSE, content, ""))
    /\ UNCHANGED <<session, sess_content, collector, storeVars, putOK,
                   putKept, resv>>

\* ------------------------------------------------------------------------
\* Local-cache partitioning (NetworkController.reserve_local_cache)
\* ------------------------------------------------------------------------
\* Ratios are the multiples k / RatioDen, which floating point holds exactly
RatioDen == 4

\* How round() treats a value halfway between two integers: to the even one
\* (Python 3) or upwards (Python 2)
RoundModes == {"even", "up"}

\* iround(num / den) for num >= 0: the closest integer
iround(num, den, mode) ==
    IF 2 * (num % den) < den THEN num \div den
    ELSE IF 2 * (num % den) > den THEN (num \div den) + 1
    ELSE IF mode = "up" \/ (num \div den) % 2 = 1 THEN (num \div den) + 1
    ELSE num \div den

coordinated_maxlen_full(c, k, mode) == c.maxlen

\* maxlen = iround(c.maxlen * (1 - ratio))
coordinated_maxlen(c, k, mode) ==
    iround(c.maxlen * (RatioDen - k), RatioDen, mode)

\* local_maxlen = iround(c.maxlen * (ratio))
local_maxlen(c, k, mode) == iround(c.maxlen * k, RatioDen, mode)

\* if maxlen > 0: cache[v] = type(c)(maxlen)   else: cache.pop(v)
reserve_coordinated(m, v, maxlen) ==
    IF maxlen > 0
    THEN [m EXCEPT !.cache = Put(m.cache, v, new_cache(maxlen))]
    ELSE [m EXCEPT !.cache = Drop(m.cache, v)]

\* if local_maxlen > 0: local_cache[v] = type(c)(local_maxlen)
reserve_local(m, v, maxlen) ==
    IF maxlen > 0
    THEN [m EXCEPT !.local_cache = Put(m.local_cache, v, new_cache(maxlen))]
    ELSE m

\* for v, c in list(self.model.cache.items()): ...
RECURSIVE ReserveLoop(_, _, _, _, _)
ReserveLoop(m, todo, caches, k, mode) ==
    IF todo = {} THEN m
    ELSE LET v == CHOOSE x \in todo : TRUE
         IN  ReserveLoop(
                 reserve_local(
                     reserve_coordinated(
                         m, v, coordinated_maxlen(caches[v], k, mode)),
                     v, local_maxlen(caches[v], k, mode)),
                 todo \ {v}, caches, k, mode)

\* reserve_local_cache without the test of the ratio
reserve_local_cache_unchecked(m, k, mode) ==
    ReserveLoop(m, DOMAIN m.cache, m.cache, k, mode)

reserve_local_cache(m, k, mode) ==
    IF k < 0 \/ k > RatioDen
    THEN [m EXCEPT !.err = "ValueError"]
    ELSE ReserveLoop(m, DOMAIN m.cache, m.cache, k, mode)

ReserveLocalCache(k, mode) ==
    /\ SetM(reserve_local_cache(M, k, mode))
    /\ ret' = "None"
    /\ pair' = PairIdle
    /\ putKept' = {}
    /\ resv' = Restrict([v \in DOMAIN cache |-> cache[v].maxlen],
                        (DOMAIN cache) \ (DOMAIN local_cache))
    /\ lastOp' = Call("reserve_local_cache", k, NoNode, FALSE, mode, "")
    /\ nOps' = nOps + 1
    /\ UNCHANGED <<content_source, link_delay, link_type, labelVars,
                   histVars, session, sess_content, collector, sink, scen,
                   putOK, extVars>>

\* ------------------------------------------------------------------------
\* Specifications of the controller
\* ------------------------------------------------------------------------
\* topology_path(3): receiver 0, router 1, source 2; all links internal with
\* delay 1.  The source originates content A and router 1 has a cache.
PathNodes == <<0, 1, 2>>

PathAttr == [n \in {0, 1, 2} |->
                IF n = 0 THEN "receiver" ELSE IF n = 2 THEN "source"
                ELSE "router"]

PathEdges == [e \in {{0, 1}, {1, 2}} |-> Link(1, "internal")]

InitPath ==
    /\ topology_nodes = PathNodes
    /\ topology_attr = PathAttr
    /\ topology_edge = PathEdges
    /\ link_delay = BothDirections(PathEdges, "delay")
    /\ link_type = BothDirections(PathEdges, "type")
    /\ shortest_path =
           symmetrify_paths(
               all_pairs_dijkstra_path(PathNodes, DOMAIN PathEdges, {}),
               PathNodes).sp
    /\ cache = [n \in {1} |-> CacheObj(1, {})]
    /\ local_cache = EmptyDict
    /\ source_node = [n \in {2} |-> <<"A">>]
    /\ content_source = [c \in {"A"} |-> <<2>>]
    /\ InitFaultState

\* exec_experiment: model, view and controller are built and the collector
\* is attached before the first event
InitSession ==
    InitPath /\ InitHist /\ InitCtl(TRUE) /\ InitNoLabels /\ InitExt

MaxSessionOps == 5

NextSession ==
    \/ nOps < MaxSessionOps /\ AttachCollector
    \/ nOps < MaxSessionOps /\ DetachCollector
    \/ \E f \in FlowIds, x \in {"A"} :
          nOps < MaxSessionOps /\ StartSession(f, 0, x, TRUE)
    \/ \E f \in FlowIds : nOps < MaxSessionOps /\ EndSession(f)
    \/ \E s, t \in {0, 2} :
          nOps < MaxSessionOps /\ ForwardRequestPath(s, t)
    \/ \E s, t \in {0, 2} :
          nOps < MaxSessionOps /\ ForwardContentPath(s, t)
    \/ \E n \in {0, 1, 2} : nOps < MaxSessionOps /\ GetContent(n, "A")

SpecSession == InitSession /\ [][NextSession]_vars

InitCache ==
    InitRing /\ InitHist /\ InitCtl(TRUE) /\ InitNoLabels /\ InitExt

MaxCacheOps == 3

NextCache ==
    \/ nOps < MaxCacheOps /\ AttachCollector
    \/ nOps < MaxCacheOps /\ DetachCollector
    \/ \E n \in {1, 2, 3}, x \in Contents :
          nOps < MaxCacheOps /\ PutContent(n, x)
    \/ \E n \in Nodes, x \in Contents :
          nOps < MaxCacheOps /\ GetContent(n, x)
    \/ \E k \in -1 .. RatioDen + 1, mode \in RoundModes :
          nOps < MaxCacheOps /\ ReserveLocalCache(k, mode)
    \/ \E v \in {1, 2} : nOps < MaxCacheOps /\ RemoveNode(v, FALSE)
    \/ \E v \in {1, 2} : nOps < MaxCacheOps /\ RestoreNode(v, FALSE)

SpecCache == InitCache /\ [][NextCache]_vars

\* ------------------------------------------------------------------------
\* Persistent storage: an edge router that originates content
\* ------------------------------------------------------------------------
\* The path 0 - 1 - 2 with router 1 an edge repository (stack 'router',
\* extra_types ['source', 'router'], a cache of size 1, a storage and
\* content B) and source 2 holding content A.
EdgeContents == [n \in {1, 2} |-> IF n = 1 THEN {"B"} ELSE {"A"}]

InitEdgeStore ==
    /\ topology_nodes = PathNodes
    /\ topology_attr = PathAttr
    /\ topology_edge = PathEdges
    /\ link_delay = BothDirections(PathEdges, "delay")
    /\ link_type = BothDirections(PathEdges, "type")
    /\ shortest_path =
           symmetrify_paths(
               all_pairs_dijkstra_path(PathNodes, DOMAIN PathEdges, {}),
               PathNodes).sp
    /\ cache = [n \in {1} |-> CacheObj(1, {})]
    /\ local_cache = EmptyDict
    /\ source_node = [n \in {1, 2} |-> IF n = 1 THEN <<"B">> ELSE <<"A">>]
    /\ content_source = [c \in {"A", "B"} |-> IF c = "A" THEN <<2>> ELSE <<1>>]
    /\ contents = EdgeContents
    /\ repoStorage = EdgeContents
    /\ InitFaultState

\* Identifiers of the messages offered to the storage: the contents of the
\* topology and one that no node holds
MessageIds == Contents \cup {"C"}

\* if s in contents: contents[s][id] = content  else: contents[s] = {id: ..}
contents_add(cs, s, id) ==
    Put(cs, s, (IF s \in DOMAIN cs THEN cs[s] ELSE {}) \cup {id})

\* for c in self.model.content_source: if content['content'] == c: ...
\* Only an identifier that is already a key of content_source is registered
register_source(m, s, id) ==
    IF id \in DOMAIN m.content_source
    THEN [content_source |->
              Put(m.content_source, id, AppendNew(m.content_source[id], s)),
          contents |-> contents_add(m.contents, s, id)]
    ELSE m

\* add_message_to_storage(s, content): the outcome
\* [err, repoStorage, content_source, contents].
\* repoStorage[s] raises KeyError when s has no storage; the storage policy's
\* addToStoredMessages keeps the message.
add_message_to_storage(s, id) ==
    IF s \notin DOMAIN repoStorage
    THEN [err |-> "KeyError", repoStorage |-> repoStorage,
          idx |-> [content_source |-> content_source, contents |-> contents]]
    ELSE [err |-> "none",
          repoStorage |-> Put(repoStorage, s, repoStorage[s] \cup {id}),
          idx |-> register_source(
                      [content_source |-> content_source,
                       contents |-> contents], s, id)]

AddMessageToStorage(s, id) ==
    /\ err' = add_message_to_storage(s, id).err
    /\ repoStorage' = add_message_to_storage(s, id).repoStorage
    /\ content_source' = add_message_to_storage(s, id).idx.content_source
    /\ contents' = add_message_to_storage(s, id).idx.contents
    /\ ret' = "None"
    /\ pair' = PairIdle
    /\ lastOp' = Call("add_message_to_storage", s, NoNode, FALSE, id, "")
    /\ nOps' = nOps + 1
    /\ UNCHANGED <<topoVars, labelVars, histVars, session, sess_content,
                   collector, sink, cache, local_cache, source_node, scen,
                   putOK, putKept, resv, queueVars, viewVars, runVars,
                   replVars, reqVars>>

InitEdge ==
    InitEdgeStore /\ InitHist /\ InitCtl(TRUE) /\ InitNoLabels /\ InitQueue
        /\ InitNoView /\ InitNoRun /\ InitNoRepl /\ InitNoReq

MaxEdgeOps == 3

NextEdge ==
    \/ nOps < MaxEdgeOps /\ AttachCollector
    \/ nOps < MaxEdgeOps /\ DetachCollector
    \/ \E f \in {"0", "log"}, x \in Contents :
          nOps < MaxEdgeOps /\ StartSession(f, 0, x, TRUE)
    \/ \E x \in Contents : nOps < MaxEdgeOps /\ PutContent(1, x)
    \/ \E n \in {0, 1, 2}, x \in Contents :
          nOps < MaxEdgeOps /\ GetContent(n, x)
    \/ \E n \in {0, 1, 2}, id \in MessageIds :
          nOps < MaxEdgeOps /\ AddMessageToStorage(n, id)

SpecEdge == InitEdge /\ [][NextEdge]_vars

\* ------------------------------------------------------------------------
\* The event queue: Event.__lt__, add_event and heapq on model.eventQ
\* ------------------------------------------------------------------------
\* Timestamps are Python floats: a number, +inf, -inf or NaN
MaxTime == 3

Num(n) == [k |-> "num", v |-> n]

PosInf == [k |-> "inf", v |-> 0]

NegInf == [k |-> "-inf", v |-> 0]

NaN == [k |-> "nan", v |-> 0]

Times == {Num(n) : n \in 1 .. MaxTime} \cup {PosInf, NegInf, NaN}

\* a == b on floats: false whenever one side is NaN
FloatEq(a, b) == a.k # "nan" /\ b.k # "nan" /\ a = b

\* a < b on floats: false whenever one side is NaN
FloatLt(a, b) ==
    IF a.k = "nan" \/ b.k = "nan" THEN FALSE
    ELSE IF a.k = "-inf" THEN b.k # "-inf"
    ELSE IF a.k = "inf" THEN FALSE
    ELSE b.k = "inf" \/ (b.k = "num" /\ a.v < b.v)

\* Event.__lt__: return self.time < other.time
EventLt(e, f) == FloatLt(e.time, f.time)

\* heap[pos] = item, for a 0-based position
SetAt(heap, pos, item) == [heap EXCEPT ![pos + 1] = item]

\* heapq._siftdown(heap, startpos, pos) with newitem held aside
RECURSIVE SiftDown(_, _, _, _)
SiftDown(heap, startpos, pos, newitem) ==
    IF pos > startpos /\ EventLt(newitem, heap[((pos - 1) \div 2) + 1])
    THEN SiftDown(SetAt(heap, pos, heap[((pos - 1) \div 2) + 1]), startpos,
                  (pos - 1) \div 2, newitem)
    ELSE SetAt(heap, pos, newitem)

\* The child that heapq._siftup moves up: the right one unless the left one
\* is smaller
SmallerChild(heap, childpos) ==
    IF childpos + 1 < Len(heap)
           /\ ~EventLt(heap[childpos + 1], heap[childpos + 2])
    THEN childpos + 1
    ELSE childpos

\* heapq._siftup(heap, pos) with newitem held aside
RECURSIVE SiftUp(_, _, _, _)
SiftUp(heap, startpos, pos, newitem) ==
    IF 2 * pos + 1 < Len(heap)
    THEN SiftUp(SetAt(heap, pos, heap[SmallerChild(heap, 2 * pos + 1) + 1]),
                startpos, SmallerChild(heap, 2 * pos + 1), newitem)
    ELSE SiftDown(SetAt(heap, pos, newitem), startpos, pos, newitem)

\* heapq.heappush(heap, item)
heappush(heap, item) == SiftDown(Append(heap, item), 0, Len(heap), item)

\* heapq.heappop(heap) on a non-empty heap: [item, heap]
heappop(heap) ==
    IF Len(heap) = 1 THEN [item |-> heap[1], heap |-> <<>>]
    ELSE [item |-> heap[1],
          heap |-> SiftUp(SetAt(SubSeq(heap, 1, Len(heap) - 1), 0,
                                heap[Len(heap)]),
                          0, 0, heap[Len(heap)])]

\* A call on the event queue
QueueStep(op) ==
    /\ lastOp' = op
    /\ nOps' = nOps + 1
    /\ UNCHANGED <<topoVars, storeVars, ctlVars, labelVars, histVars, ctlHist,
                   repoVars, viewVars, runVars, replVars, reqVars>>

\* if time == float('inf'): raise ValueError
\* e = Event(time, ...); heapq.heappush(self.model.eventQ, e)
add_event(q, time) ==
    IF FloatEq(time, PosInf)
    THEN [err |-> "ValueError", eventQ |-> q]
    ELSE [err |-> "none", eventQ |-> heappush(q, [time |-> time])]

AddEvent(time) ==
    /\ eventQ' = add_event(eventQ, time).eventQ
    /\ err' = add_event(eventQ, time).err
    /\ qlog' = [before |-> eventQ, popped |-> NoEvent, time |-> time]
    /\ QueueStep(Call("add_event", NoNode, NoNode, FALSE, "", ""))

\* heapq.heappop(view.eventQ()): IndexError on an empty queue
PopEvent ==
    /\ IF eventQ = <<>>
       THEN /\ err' = "IndexError"
            /\ eventQ' = eventQ
            /\ qlog' = [before |-> eventQ, popped |-> NoEvent,
                        time |-> NoEvent.time]
       ELSE /\ err' = "none"
            /\ eventQ' = heappop(eventQ).heap
            /\ qlog' = [before |-> eventQ, popped |-> heappop(eventQ).item,
                        time |-> NoEvent.time]
    /\ QueueStep(Call("pop_event", NoNode, NoNode, FALSE, "", ""))

InitQueueSpec ==
    InitPath /\ InitHist /\ InitCtl(TRUE) /\ InitNoLabels /\ InitExt

MaxQueueOps == 5

NextQueue ==
    \/ \E time \in Times : nOps < MaxQueueOps /\ AddEvent(time)
    \/ nOps < MaxQueueOps /\ PopEvent

SpecQueue == InitQueueSpec /\ [][NextQueue]_vars

\* ------------------------------------------------------------------------
\* Label indices (NetworkModel.__init__, add_storage_labels_to_node) and
\* NetworkView.labels_sources
\* ------------------------------------------------------------------------
Labels == {"sports", "news"}

\* The nodes that hold labelled content
LabelNodes == {1, 2, 3}

\* Identifiers of the nodes: node 1 is the integer 1, node 2 is named
\* "repo_2" and node 3 "src_3" (sources are named 'src_%d')
LabelNodeIds ==
    [n \in Nodes |-> [is_int |-> n \notin {2, 3}, has_src |-> n = 3]]

\* type(n) != int and "src" in n
IsSrcId(n) == ~LabelNodeIds[n].is_int /\ LabelNodeIds[n].has_src

\* Counter.update(other): counts are added, key by key
CounterGet(c, k) == IF k \in DOMAIN c THEN c[k] ELSE 0

CounterUpdate(c, other) ==
    Restrict([k \in (DOMAIN c) \cup (DOMAIN other) |->
                 CounterGet(c, k) + CounterGet(other, k)],
             (DOMAIN c) \cup (DOMAIN other))

\* Counter.update([k])
CounterInc(c, k) == Put(c, k, CounterGet(c, k) + 1)

\* The indices the constructor builds when node n holds the labels have[n]:
\* node_labels[n][l] = labels_sources[l][n] = 1
InitLabels ==
    /\ \E have \in [LabelNodes -> SUBSET Labels] :
          /\ node_labels =
                 Restrict([n \in LabelNodes |->
                              Restrict([l \in have[n] |-> 1], have[n])],
                          LabelNodes)
          /\ labels_sources =
                 Restrict([l \in Labels |->
                              Restrict([n \in LabelNodes |-> 1],
                                       {n \in LabelNodes : l \in have[n]})],
                          {l \in Labels : \E n \in LabelNodes : l \in have[n]})
    /\ answer = NoAnswer

\* A NetworkController call or NetworkView query on the label indices
LabelStep(op) ==
    /\ lastOp' = op
    /\ nOps' = nOps + 1
    /\ UNCHANGED <<topoVars, storeVars, ctlVars, histVars, ctlHist, extVars>>

\* for l in content["labels"]:
\*     node_labels[s].update([l]); labels_sources[l].update([s])
RECURSIVE add_storage_labels(_, _, _, _)
add_storage_labels(ix, s, labels, i) ==
    IF i > Len(labels) THEN ix
    ELSE add_storage_labels(
             [node_labels |->
                  Put(ix.node_labels, s,
                      CounterInc(ix.node_labels[s], labels[i])),
              labels_sources |->
                  Put(ix.labels_sources, labels[i],
                      CounterInc(IF labels[i] \in DOMAIN ix.labels_sources
                                 THEN ix.labels_sources[labels[i]]
                                 ELSE EmptyDict, s))],
             s, labels, i + 1)

\* if s not in node_labels: node_labels[s] = Counter()
add_storage_labels_to_node(s, labels) ==
    add_storage_labels(
        [node_labels |-> IF s \in DOMAIN node_labels THEN node_labels
                         ELSE Put(node_labels, s, EmptyDict),
         labels_sources |-> labels_sources],
        s, labels, 1)

AddStorageLabelsToNode(s, labels) ==
    /\ node_labels' = add_storage_labels_to_node(s, labels).node_labels
    /\ labels_sources' = add_storage_labels_to_node(s, labels).labels_sources
    /\ err' = "none"
    /\ UNCHANGED answer
    /\ LabelStep(Call("add_storage_labels_to_node", s, NoNode, FALSE, "", ""))

\* nodes = Counter(); for label in labels: nodes.update(labels_sources[label])
\* A label that is not a key of the index raises KeyError
RECURSIVE SumLabelSources(_, _, _)
SumLabelSources(nodes, labels, i) ==
    IF i > Len(labels) THEN [err |-> "none", nodes |-> nodes]
    ELSE IF labels[i] \notin DOMAIN labels_sources
         THEN [err |-> "KeyError", nodes |-> nodes]
         ELSE SumLabelSources(CounterUpdate(nodes, labels_sources[labels[i]]),
                              labels, i + 1)

\* The node n survives the deletions: it is not a "src" string and, when
\* node_labels has an entry for it, that entry has every requested label
KeepsAll(n, labels) ==
    /\ ~IsSrcId(n)
    /\ n \in DOMAIN node_labels =>
          \A i \in 1 .. Len(labels) : labels[i] \in DOMAIN node_labels[n]

FilterNodes(r, keep) ==
    [err |-> r.err, nodes |-> Restrict(r.nodes, (DOMAIN r.nodes) \cap keep)]

labels_sources_any(labels) ==
    FilterNodes(SumLabelSources(EmptyDict, labels, 1),
                {n \in Nodes : ~IsSrcId(n)})

labels_sources_view(labels) ==
    FilterNodes(SumLabelSources(EmptyDict, labels, 1),
                {n \in Nodes : KeepsAll(n, labels)})

LabelsSources(labels) ==
    /\ answer' = [kind |-> "labels", labels |-> labels,
                  nodes |-> labels_sources_view(labels).nodes]
    /\ err' = labels_sources_view(labels).err
    /\ UNCHANGED <<node_labels, labels_sources>>
    /\ LabelStep(Call("labels_sources", NoNode, NoNode, FALSE, "", ""))

\* Lists of at most two labels, repetitions included
LabelLists ==
    {<<>>} \cup {<<l>> : l \in Labels} \cup {<<l, k>> : l, k \in Labels}

InitLabelSpec ==
    InitRing /\ InitHist /\ InitCtl(FALSE) /\ InitLabels /\ InitExt

MaxLabelOps == 2

NextLabels ==
    \/ \E s \in LabelNodes, labels \in LabelLists :
          nOps < MaxLabelOps /\ AddStorageLabelsToNode(s, labels)
    \/ \E labels \in LabelLists :
          nOps < MaxLabelOps /\ LabelsSources(labels)

SpecLabels == InitLabelSpec /\ [][NextLabels]_vars

\* ------------------------------------------------------------------------
\* NetworkView.closest_source on a line topology
\* ------------------------------------------------------------------------
\* topology_path(LineLen): nodes 0 .. LineLen - 1 in a line
LineLen == 102

LineNodes == [i \in 1 .. LineLen |-> i - 1]

LineAttr == [n \in 0 .. LineLen - 1 |->
                IF n = 0 THEN "receiver"
                ELSE IF n = LineLen - 1 THEN "source" ELSE "router"]

LineEdges == [e \in {{n, n + 1} : n \in 0 .. LineLen - 2} |->
                 Link(1, "internal")]

\* The only path from u to v in a line, hence the shortest one
LinePath(u, v) ==
    [i \in 1 .. (IF u <= v THEN v - u ELSE u - v) + 1 |->
        IF u <= v THEN u + i - 1 ELSE u - i + 1]

\* The nodes that ask for the closest source, and the nodes that may
\* originate content A (listed in content_source in any order)
QueryNodes == {0, 2}

SourceCands == {1, 3, LineLen - 2, LineLen - 1}

RECURSIVE Orders(_)
Orders(S) ==
    IF S = {} THEN {<<>>}
    ELSE UNION {{<<x>> \o t : t \in Orders(S \ {x})} : x \in S}

\* The rows of shortest_path that the queries read
InitLine ==
    /\ topology_nodes = LineNodes
    /\ topology_attr = LineAttr
    /\ topology_edge = LineEdges
    /\ link_delay = BothDirections(LineEdges, "delay")
    /\ link_type = BothDirections(LineEdges, "type")
    /\ shortest_path =
           [u \in QueryNodes |-> [v \in 0 .. LineLen - 1 |-> LinePath(u, v)]]
    /\ cache = [n \in {1} |-> CacheObj(1, {})]
    /\ local_cache = EmptyDict
    /\ \E S \in (SUBSET SourceCands) \ {{}} : \E order \in Orders(S) :
          /\ content_source = [c \in {"A"} |-> order]
          /\ source_node = [n \in S |-> <<"A">>]
    /\ InitFaultState

\* hops = 100
HopsInit == 100

has_cache(node) == node \in DOMAIN cache

\* cache_lookup / local_cache_lookup: None (false) when the node has no
\* such cache
cache_lookup(node, content) ==
    node \in DOMAIN cache /\ cache_has(cache[node], content)

local_cache_lookup(node, content) ==
    node \in DOMAIN local_cache /\ cache_has(local_cache[node], content)

CacheFlag(node, content) ==
    has_cache(node)
        /\ (cache_lookup(node, content) \/ local_cache_lookup(node, content))

\* for n in content_source: if len(shortest_path(node, n)) < hops:
\*     hops = len(...); res = n
\* res = NoNode stands for the local variable res not being bound
RECURSIVE ClosestScan(_, _, _, _, _)
ClosestScan(node, srcs, i, hops, res) ==
    IF i > Len(srcs) THEN [hops |-> hops, res |-> res]
    ELSE IF Len(shortest_path[node][srcs[i]]) < hops
         THEN ClosestScan(node, srcs, i + 1,
                          Len(shortest_path[node][srcs[i]]), srcs[i])
         ELSE ClosestScan(node, srcs, i + 1, hops, res)

\* if self.has_cache(res): ... ; return res, cache
closest_result(scan, content) ==
    IF scan.res = NoNode
    THEN [err |-> "UnboundLocalError", node |-> NoNode, cache |-> FALSE]
    ELSE [err |-> "none", node |-> scan.res,
          cache |-> CacheFlag(scan.res, content)]

\* closest_source(node, k) for a plain content identifier k; every source n
\* of k has an entry contents[n][k] whose 'content' field is k
closest_source(node, k) ==
    IF k \notin DOMAIN content_source
    THEN [err |-> "KeyError", node |-> NoNode, cache |-> FALSE]
    ELSE IF InSeq(node, content_source[k])
         THEN [err |-> "none", node |-> node, cache |-> CacheFlag(node, k)]
         ELSE closest_result(
                  ClosestScan(node, content_source[k], 1, HopsInit, NoNode),
                  k)

ClosestSource(node, k) ==
    /\ answer' = [kind |-> "closest", from |-> node, content |-> k,
                  node |-> closest_source(node, k).node,
                  cache |-> closest_source(node, k).cache]
    /\ err' = closest_source(node, k).err
    /\ UNCHANGED <<node_labels, labels_sources>>
    /\ LabelStep(Call("closest_source", node, NoNode, FALSE, k, ""))

InitClosest ==
    InitLine /\ InitHist /\ InitCtl(FALSE) /\ InitNoLabels /\ InitExt

MaxClosestOps == 2

NextClosest ==
    \/ \E node \in QueryNodes, k \in Contents :
          nOps < MaxClosestOps /\ ClosestSource(node, k)
    \/ \E x \in Contents : nOps < MaxClosestOps /\ PutContent(1, x)

SpecClosest == InitClosest /\ [][NextClosest]_vars

\* ------------------------------------------------------------------------
\* NetworkView: construction and queries on the edge-repository path
\* ------------------------------------------------------------------------
\* model.compSpot has a computation spot for every node with a computation
\* size (router 1 and source 2); no view is bound to a spot before the first
\* NetworkView exists (view 0)
InitCompSpot ==
    /\ compSpot = [n \in {1, 2} |-> [view |-> 0, node |-> n]]
    /\ nviews = 0
    /\ view_attrs = {}
    /\ vsnap = <<>>

\* The Network State Container, and the fields of the view object
Container ==
    <<topology_nodes, topology_edge, shortest_path, cache, local_cache,
      source_node, content_source, node_labels, labels_sources, repoStorage,
      contents, eventQ, compSpot>>

ViewSnapshot == [container |-> Container, view |-> view_attrs]

\* A NetworkView call
ViewStep(op) ==
    /\ vsnap' = ViewSnapshot
    /\ lastOp' = op
    /\ nOps' = nOps + 1
    /\ UNCHANGED <<topoVars, storeVars, ctlVars, histVars, ctlHist, repoVars,
                   queueVars, runVars, replVars, reqVars, node_labels,
                   labels_sources>>

\* for node in model.compSpot: compSpot[node].view = self; .node = node
bind_view(spots, v) ==
    Restrict([n \in DOMAIN spots |-> [view |-> v, node |-> n]], DOMAIN spots)

\* NetworkView(model): self.model = model and the spots are bound to the view
NewView ==
    /\ nviews' = nviews + 1
    /\ view_attrs' = {"model"}
    /\ compSpot' = bind_view(compSpot, nviews + 1)
    /\ err' = "none"
    /\ answer' = NoAnswer
    /\ ViewStep(Call("NetworkView", NoNode, NoNode, FALSE, "", ""))

\* most_storage_labels_node: self.sess_latency = 0.0 succeeds, then
\* self.flow_cloud[flow_id] raises AttributeError (a view has no flow_cloud)
MostStorageLabelsNode(flow_id) ==
    /\ nviews > 0
    /\ view_attrs' = view_attrs \cup {"sess_latency"}
    /\ err' = "AttributeError"
    /\ answer' = NoAnswer
    /\ UNCHANGED <<compSpot, nviews>>
    /\ ViewStep(Call("most_storage_labels_node", NoNode, NoNode, FALSE, "",
                     flow_id))

\* content_source(k, labels) for a plain identifier k: the list stored for
\* k, or None when k is no key of content_source
content_source_view(k) ==
    IF k \in DOMAIN content_source
    THEN [kind |-> "sources", content |-> k, sources |-> content_source[k]]
    ELSE [kind |-> "None", content |-> k, sources |-> <<>>]

ContentSource(k) ==
    /\ nviews > 0
    /\ answer' = content_source_view(k)
    /\ err' = "none"
    /\ UNCHANGED <<compSpot, nviews, view_attrs>>
    /\ ViewStep(Call("content_source", NoNode, NoNode, FALSE, k, ""))

\* loc = set(v for v in cache if cache[v].has(k))
CacheLocations(id) == {v \in DOMAIN cache : cache_has(cache[v], id)}

\* content_locations(k), k a plain identifier (form "plain") or a dict with
\* the keys 'content' and 'labels' (form "dict"); lookup is what the cache
\* policy's has() does with a dict key: "TypeError" (unhashable) or "False".
\*   source = self.content_source(k, k['labels']): k['labels'] raises
\*       TypeError for a plain identifier;
\*   if source: loc.add(source): source is a list, loc.add raises TypeError.
content_locations(form, id, lookup) ==
    IF form = "plain"
    THEN [err |-> "TypeError", nodes |-> {}]
    ELSE IF DOMAIN cache # {} /\ lookup = "TypeError"
    THEN [err |-> "TypeError", nodes |-> {}]
    ELSE IF id \notin DOMAIN content_source
    THEN [err |-> "KeyError", nodes |-> {}]
    ELSE IF content_source[id] # <<>>
    THEN [err |-> "TypeError", nodes |-> {}]
    ELSE [err |-> "none", nodes |-> {}]

ContentLocations(form, id, lookup) ==
    /\ nviews > 0
    /\ answer' = [kind |-> "locations", content |-> id,
                  nodes |-> content_locations(form, id, lookup).nodes]
    /\ err' = content_locations(form, id, lookup).err
    /\ UNCHANGED <<compSpot, nviews, view_attrs>>
    /\ ViewStep(Call("content_locations", NoNode, NoNode, FALSE, id, form))

InitView ==
    InitEdgeStore /\ InitHist /\ InitCtl(TRUE) /\ InitNoLabels /\ InitQueue
        /\ InitCompSpot /\ InitNoRun /\ InitNoRepl /\ InitNoReq

MaxViewOps == 4

NextView ==
    \/ nOps < MaxViewOps /\ NewView
    \/ \E f \in {"0", "1"} : nOps < MaxViewOps /\ MostStorageLabelsNode(f)
    \/ \E k \in MessageIds : nOps < MaxViewOps /\ ContentSource(k)
    \/ \E form \in {"plain", "dict"}, id \in MessageIds,
          lookup \in {"TypeError", "False"} :
          nOps < MaxViewOps /\ ContentLocations(form, id, lookup)
    \/ \E x \in Contents : nOps < MaxViewOps /\ PutContent(1, x)

SpecView == InitView /\ [][NextView]_vars

\* ------------------------------------------------------------------------
\* Links as two-state machines: removal and restoration in either order
\* ------------------------------------------------------------------------
\* restore_link(u, v): removed_links.pop((u, v)) is evaluated first and
\* raises KeyError when the link was recorded under another key
restore_link_call(m, u, v, recompute_paths, H) ==
    IF <<u, v>> \in DOMAIN m.removed_links
    THEN restore_link(m, u, v, recompute_paths, H)
    ELSE [m EXCEPT !.err = "KeyError"]

\* restore_link on a removed link, its endpoints given in either order
RestoreLinkCall(u, v, rp) ==
    /\ u # v
    /\ <<u, v>> \in DOMAIN removed_links \/ <<v, u>> \in DOMAIN removed_links
    /\ \E H \in Prefs(rp) :
          TopoStep(restore_link_call(M, u, v, rp, H),
                   OpRec("restore_link", u, v, rp))
    /\ rt' = RtIdle
    /\ manual' = manual \ {<<u, v>>}
    /\ indep' = [w \in Nodes |-> indep[w] \ {<<u, v>>}]
    /\ casc' = [w \in Nodes |-> IF w = u THEN casc[w] \ {v} ELSE casc[w]]

MaxLinkOps == 3

NextLink ==
    \/ \E u, v \in Nodes, rp \in BOOLEAN :
          nOps < MaxLinkOps /\ RemoveLink(u, v, rp)
    \/ \E u, v \in Nodes, rp \in BOOLEAN :
          nOps < MaxLinkOps /\ RestoreLinkCall(u, v, rp)

SpecLink == InitTopo /\ [][NextLink]_vars

\* ------------------------------------------------------------------------
\* A sequence of topology edits, run twice: recomputation deferred to the
\* last edit (the container) and recomputation at every edit (twin)
\* ------------------------------------------------------------------------
\* The calls remove_link(u, v), restore_link(u, v), rewire_link(u, v, u, w),
\* remove_node(v) and restore_node(v)
Edits ==
    [op : {"remove_link", "restore_link"}, u : Nodes, v : Nodes, w : {NoNode}]
    \cup [op : {"rewire_link"}, u : Nodes, v : Nodes, w : Nodes]
    \cup [op : {"remove_node", "restore_node"}, u : {NoNode}, v : Nodes,
          w : {NoNode}]

\* The call is one a strategy can make on the topology as it stands
EditEnabled(e) ==
    IF e.op = "remove_link"
    THEN e.u < e.v /\ Edge(e.u, e.v) \in DOMAIN topology_edge
    ELSE IF e.op = "restore_link"
    THEN <<e.u, e.v>> \in DOMAIN removed_links
    ELSE IF e.op = "rewire_link"
    THEN /\ e.u < e.v /\ Edge(e.u, e.v) \in DOMAIN topology_edge
         /\ InSeq(e.w, topology_nodes) /\ e.w \notin {e.u, e.v}
    ELSE IF e.op = "remove_node"
    THEN InSeq(e.v, topology_nodes) /\ e.v \notin DOMAIN removed_nodes
    ELSE e.v \in DOMAIN removed_nodes

apply_edit(m, e, recompute_paths, H) ==
    IF e.op = "remove_link" THEN remove_link(m, e.u, e.v, recompute_paths, H)
    ELSE IF e.op = "restore_link"
    THEN restore_link(m, e.u, e.v, recompute_paths, H)
    ELSE IF e.op = "rewire_link"
    THEN rewire_link(m, e.u, e.v, e.u, e.w, recompute_paths, H)
    ELSE IF e.op = "remove_node" THEN remove_node(m, e.v, recompute_paths, H)
    ELSE restore_node(m, e.v, recompute_paths, H)

\* The twin makes the same call with recompute_paths = True
twin_edit(e, H) == apply_edit([twin.m EXCEPT !.err = "none"], e, TRUE, H)

\* One edit of the sequence; last tells whether it is the final one.  The
\* tie-breaking of Dijkstra is that of the topology, the same in both runs.
DeferEdit(e, last) ==
    /\ lastOp.op = "init" \/ ~lastOp.rp
    /\ EditEnabled(e)
    /\ \E H \in HiSources :
          /\ SetM(apply_edit(M, e, last, H))
          /\ twin' = [m |-> twin_edit(e, H),
                      raised |-> twin.raised \/ twin_edit(e, H).err # "none",
                      failed |-> twin.failed
                                     \/ apply_edit(M, e, last, H).err # "none"]
    /\ lastOp' = OpRec(e.op, e.u, e.v, last)
    /\ nOps' = nOps + 1
    /\ UNCHANGED <<content_source, link_delay, link_type, ctlVars, labelVars,
                   ctlHist, histVars, repoVars, queueVars, viewVars, eng, rng,
                   built, replVars, reqVars>>

InitDefer ==
    /\ InitRing /\ InitHist /\ InitCtl(FALSE) /\ InitNoLabels
    /\ InitNoRepo /\ InitQueue /\ InitNoView /\ InitNoRepl /\ InitNoReq
    /\ eng = NoRun /\ rng = 0 /\ built = <<>>
    /\ twin = [m |-> M, raised |-> FALSE, failed |-> FALSE]

MaxDeferOps == 3

NextDefer ==
    \/ \E e \in Edits : nOps < MaxDeferOps /\ DeferEdit(e, FALSE)
    \/ \E e \in Edits : nOps < MaxDeferOps /\ DeferEdit(e, TRUE)

SpecDefer == InitDefer /\ [][NextDefer]_vars


\* ------------------------------------------------------------------------
\* Removals of links and of router or receiver nodes, paths recomputed or not
\* ------------------------------------------------------------------------
MaxCutOps == 2

NextCut ==
    \/ \E u, v \in Nodes, rp \in BOOLEAN :
          nOps < MaxCutOps /\ u < v /\ RemoveLink(u, v, rp)
    \/ \E v \in Nodes, rp \in BOOLEAN :
          nOps < MaxCutOps /\ RingAttr[v] # "source" /\ RemoveNode(v, rp)

SpecCut == InitTopo /\ [][NextCut]_vars

\* ------------------------------------------------------------------------
\* Nodes removed and restored, each only while active or removed
\* ------------------------------------------------------------------------
MaxNodeOps == 3

NextNodes ==
    \/ \E v \in Nodes, rp \in BOOLEAN :
          nOps < MaxNodeOps /\ RemoveNode(v, rp)
    \/ \E v \in Nodes, rp \in BOOLEAN :
          nOps < MaxNodeOps /\ RestoreNode(v, rp)

SpecNodes == InitTopo /\ [][NextNodes]_vars

\* ------------------------------------------------------------------------
\* Node removal on a topology whose caches have been partitioned
\* ------------------------------------------------------------------------
MaxRemoveOps == 3

NextRemove ==
    \/ \E k \in 0 .. RatioDen, mode \in RoundModes :
          nOps < MaxRemoveOps /\ ReserveLocalCache(k, mode)
    \/ \E u, v \in Nodes : nOps < MaxRemoveOps /\ RemoveLink(u, v, FALSE)
    \/ \E v \in Nodes, rp \in BOOLEAN :
          nOps < MaxRemoveOps /\ RemoveNode(v, rp)
    \/ \E v \in Nodes : nOps < MaxRemoveOps /\ RestoreNode(v, FALSE)

SpecRemove == InitTopo /\ [][NextRemove]_vars

\* ------------------------------------------------------------------------
\* exec_experiment: the main loop over the workload
\* ------------------------------------------------------------------------
\* if n % 500 == 0 and n:
SnapshotEvery == 500

\* Longest workload explored
MaxEvents == 503

\* event['status']
Statuses == {0, 1}

\* for time, event in workload: the iterator yields the next pair
next_item(e) == [e EXCEPT !.pos = @ + 1]

\* strategy_inst.process_event(time, **event) on the pair just yielded; the
\* calls are in workload order when the pair is the one after the last call's
call_strategy(e) ==
    [e EXCEPT !.calls = @ + 1, !.ordered = @ /\ e.pos = e.calls + 1]

\* The handler of warmup_strategy_inst (never called by the loop)
call_warmup(e) == [e EXCEPT !.warmup = @ + 1]

\* if n % 500 == 0 and n: collector.results()
snapshot(e) ==
    IF e.n % SnapshotEvery = 0 /\ e.n # 0 THEN [e EXCEPT !.interim = @ + 1]
    ELSE e

\* if event['status'] == 1: n += 1
count_event(e, status) == IF status = 1 THEN [e EXCEPT !.n = @ + 1] ELSE e

\* A loop body that hands the events of status other than 1 to the warm-up
\* strategy
loop_body_warmup(e, status) ==
    IF status = 1 THEN count_event(snapshot(call_strategy(next_item(e))), 1)
    ELSE count_event(snapshot(call_warmup(next_item(e))), status)

\* One iteration of the loop
loop_body(e, status) ==
    count_event(snapshot(call_strategy(next_item(e))), status)

\* return collector.results()
final_results(e) == [e EXCEPT !.final = @ + 1, !.done = TRUE]

EngineStep(op) ==
    /\ lastOp' = op
    /\ UNCHANGED <<topoVars, storeVars, ctlVars, labelVars, histVars, ctlHist,
                   repoVars, queueVars, viewVars, rng, built, twin,
                   replVars, reqVars, err, nOps>>

\* The workload yields one more pair, of the given status
LoopEvent(status) ==
    /\ ~eng.done
    /\ eng' = loop_body(eng, status)
    /\ EngineStep([op |-> "event", status |-> status,
                   snapshot |-> eng'.interim # eng.interim])

\* The workload is exhausted
LoopEnd ==
    /\ ~eng.done
    /\ eng' = final_results(eng)
    /\ EngineStep([op |-> "return", status |-> 0, snapshot |-> FALSE])

\* model, view, controller and collector are built, the collector attached,
\* both strategies instantiated, n = 0
InitEngine ==
    InitEdgeStore /\ InitHist /\ InitCtl(TRUE) /\ InitNoLabels /\ InitQueue
        /\ InitCompSpot /\ InitNoRun /\ InitNoRepl /\ InitNoReq

NextEngine ==
    \/ \E status \in Statuses : eng.pos < MaxEvents /\ LoopEvent(status)
    \/ LoopEnd

SpecEngine == InitEngine /\ [][NextEngine]_vars

\* ------------------------------------------------------------------------
\* NetworkModel.__init__: what a construction builds from its arguments
\* ------------------------------------------------------------------------
\* The generator of module random, as a full-period congruential generator
\* over RngMod states; random.random() is the state over RngMod
RngMod == 8

\* random.seed(seed) without the reseeding: the generator is left as found
random_seed_kept(seed, g) == g

\* random.seed(seed): the state depends on the seed only
random_seed(seed, g) == seed % RngMod

\* The generator after one draw
random_next(g) == (5 * g + 3) % RngMod

\* random.uniform(a, b) = a + (b - a) * random.random(), times in ms
uniform(a, b, g) == a + ((b - a) * g) \div RngMod

\* Service(service_time, deadline)
Service(service_time, deadline) ==
    [service_time |-> service_time, deadline |-> deadline, labels |-> "None"]

\* topology.graph of the repository topologies, times in ms.  The ring and
\* path topologies set no receiver_access_delay.
GraphAttrs(variant) ==
    [has_rad |-> variant = "repo", receiver_access_delay |-> 1,
     link_delay |-> 20, routers |-> 2, sources |-> 3]

\* delay_min = 2 * receiver_access_delay + service_time_max
delay_min(t) == 2 * t.graph.receiver_access_delay + 100

\* delay_max = delay_min + 2 * (len(routers) + len(sources)) * link_delay
\*             + 0.005
delay_max(t) ==
    delay_min(t) + 2 * (t.graph.routers + t.graph.sources) * t.graph.link_delay
        + 5

\* One pass of 'for service in range(0, n_services)': two draws, one Service
next_service(t, g) ==
    Service(uniform(100, 100, g),
            uniform(delay_min(t), delay_max(t), random_next(g)) + 2 * 1)

RECURSIVE gen_services(_, _, _, _)
gen_services(t, k, g, acc) ==
    IF k = 0 THEN [services |-> acc, rng |-> g]
    ELSE gen_services(t, k - 1, random_next(random_next(g)),
                      Append(acc, next_service(t, g)))

\* for label in contents[node][c]['labels']:
\*     all_node_labels[node].update([label])
RECURSIVE count_labels(_, _, _)
count_labels(counter, labels, i) ==
    IF i > Len(labels) THEN counter
    ELSE count_labels(CounterInc(counter, labels[i]), labels, i + 1)

RECURSIVE all_node_labels(_, _, _)
all_node_labels(counter, cs, i) ==
    IF i > Len(cs) THEN counter
    ELSE all_node_labels(count_labels(counter, cs[i].labels, 1), cs, i + 1)

\* if content in content_source: content_source[content].append(node)
\* else: content_source[content] = [node]
append_source(src, content, node) ==
    Put(src, content,
        IF content \in DOMAIN src THEN Append(src[content], node)
        ELSE <<node>>)

RECURSIVE add_sources(_, _, _, _)
add_sources(src, cs, i, node) ==
    IF i > Len(cs) THEN src
    ELSE add_sources(append_source(src, cs[i].content, node), cs, i + 1, node)

\* for k in all_node_labels[node]:
\*     labels_sources[k].update({node: all_node_labels[node][k]})
label_row(ls, counter, node, k) ==
    IF k \notin DOMAIN counter THEN ls[k]
    ELSE CounterUpdate(IF k \in DOMAIN ls THEN ls[k] ELSE EmptyDict,
                       node :> counter[k])

index_labels(ls, counter, node) ==
    Restrict([k \in (DOMAIN ls) \cup (DOMAIN counter) |->
                 label_row(ls, counter, node, k)],
             (DOMAIN ls) \cup (DOMAIN counter))

\* list(contents[node].keys())
content_keys(cs) == [i \in 1 .. Len(cs) |-> cs[i].content]

\* The body of the node loop for a node whose stack holds labelled contents
add_contents(m, node, cs) ==
    [m EXCEPT !.contents = Put(@, node, SeqToSet(content_keys(cs))),
              !.source_node = Put(@, node, content_keys(cs)),
              !.content_source = add_sources(@, cs, 1, node),
              !.node_labels = Put(@, node, all_node_labels(EmptyDict, cs, 1)),
              !.labels_sources =
                  index_labels(@, all_node_labels(EmptyDict, cs, 1), node)]

\* 'router' in stack_name and 'router' in extra_types and 'contents' in
\* stack_props and contents, or stack_name == 'source' and 'router' not in
\* extra_types and 'contents' in stack_props
holds_contents(t, node) ==
    /\ node \in DOMAIN t.contents
    /\ \/ t.attr[node] = "router" /\ "router" \in t.extra_types[node]
                                  /\ t.contents[node] # <<>>
       \/ t.attr[node] = "source" /\ "router" \notin t.extra_types[node]

\* The size as given, whatever it is
keep_cache_size(c) == c

\* if cache_size[node] < 1: cache_size[node] = 1
clamp_cache_size(c) == IF c < 1 THEN 1 ELSE c

\* if 'router' in stack_name: if 'cache_size' in stack_props: ...
add_cache(m, t, node) ==
    IF t.attr[node] = "router" /\ node \in DOMAIN t.cache_size
    THEN [m EXCEPT !.cache =
              Put(@, node, new_cache(clamp_cache_size(t.cache_size[node])))]
    ELSE m

\* for node in topology.nodes(): ...
RECURSIVE node_loop(_, _, _)
node_loop(t, i, m) ==
    IF i > Len(t.nodes) THEN m
    ELSE node_loop(t, i + 1,
             IF holds_contents(t, t.nodes[i])
             THEN add_contents(add_cache(m, t, t.nodes[i]), t.nodes[i],
                               t.contents[t.nodes[i]])
             ELSE add_cache(m, t, t.nodes[i]))

\* The container before the node loop
EmptyModel(t) ==
    [err |-> "none",
     shortest_path |->
         symmetrify_paths(all_pairs_dijkstra_path(t.nodes, t.edges, t.tie),
                          t.nodes).sp,
     eventQ |-> <<>>, contents |-> EmptyDict, source_node |-> EmptyDict,
     content_source |-> EmptyDict, node_labels |-> EmptyDict,
     labels_sources |-> EmptyDict, cache |-> EmptyDict, services |-> <<>>]

\* topology.graph['receiver_access_delay'] of a topology that has none: the
\* constructor raises and no container exists
RaisedModel(e) ==
    [err |-> e, shortest_path |-> EmptyDict, eventQ |-> <<>>,
     contents |-> EmptyDict, source_node |-> EmptyDict,
     content_source |-> EmptyDict, node_labels |-> EmptyDict,
     labels_sources |-> EmptyDict, cache |-> EmptyDict, services |-> <<>>]

\* NetworkModel(topology, ..., n_services, rate, seed): the container, and
\* the generator as the construction leaves it
NetworkModel(t, seed, n_services, g) ==
    IF ~t.graph.has_rad THEN [model |-> RaisedModel("KeyError"), rng |-> g]
    ELSE [model |->
              [node_loop(t, 1, EmptyModel(t)) EXCEPT !.services =
                  gen_services(t, n_services, random_seed(seed, g),
                               <<>>).services],
          rng |-> gen_services(t, n_services, random_seed(seed, g), <<>>).rng]

\* The topologies given to the constructor.  "repo": the ring with router 1
\* an edge repository holding labelled content B and source 3 holding
\* labelled contents A and B; "ring": the ring as topology_ring builds it.
\* tie is the order in which Dijkstra meets equally short paths, a property
\* of the adjacency of the topology object.
RepoContents ==
    (1 :> <<[content |-> "B", labels |-> <<"news">>]>>)
    @@ (3 :> <<[content |-> "A", labels |-> <<"sports", "news">>],
               [content |-> "B", labels |-> <<"news">>]>>)

Topology(variant, tie) ==
    [nodes |-> RingNodes, edges |-> DOMAIN RingEdges, attr |-> RingAttr,
     extra_types |-> [n \in Nodes |->
                         IF n = 1 /\ variant = "repo"
                         THEN {"source", "router"} ELSE {}],
     cache_size |-> (1 :> 3) @@ (2 :> 0),
     contents |-> RepoContents, graph |-> GraphAttrs(variant), tie |-> tie]

Topologies == {Topology(v, tie) : v \in {"repo", "ring"}, tie \in HiSources}

Seeds == {0, 1}

MaxServices == 2

\* Arguments of one construction
BuildInputs ==
    [topology : Topologies, seed : Seeds, n_services : 1 .. MaxServices]

BuildStep(op) ==
    /\ lastOp' = op
    /\ nOps' = nOps + 1
    /\ UNCHANGED <<topoVars, storeVars, ctlVars, labelVars, histVars, ctlHist,
                   repoVars, queueVars, viewVars, eng, twin, replVars, reqVars,
                   err>>

\* model = NetworkModel(topology, cache_policy, ..., seed=seed)
Construct(in) ==
    /\ built' = Append(built,
                       [input |-> in, rng_in |-> rng,
                        model |-> NetworkModel(in.topology, in.seed,
                                               in.n_services, rng).model])
    /\ rng' = NetworkModel(in.topology, in.seed, in.n_services, rng).rng
    /\ BuildStep([op |-> "NetworkModel"])

\* Other code of the process draws from the generator between constructions
Draw ==
    /\ rng' = random_next(rng)
    /\ built' = built
    /\ BuildStep([op |-> "random"])

\* No container has been constructed by the process yet
InitBuild ==
    InitRing /\ InitHist /\ InitCtl(FALSE) /\ InitNoLabels /\ InitExt

MaxBuildOps == 2

NextBuild ==
    \/ \E in \in BuildInputs : nOps < MaxBuildOps /\ Construct(in)
    \/ nOps < MaxBuildOps /\ Draw

SpecBuild == InitBuild /\ [][NextBuild]_vars

\* ------------------------------------------------------------------------
\* NetworkView: link and path delay
\* ------------------------------------------------------------------------
\* for indx in range(first, len(path) - 1):
\*     delay += self.link_delay(path[indx], path[indx + 1])
\* indx is the 0-based Python index; a missing link_delay key is a KeyError
RECURSIVE PathDelayLoop(_, _, _)
PathDelayLoop(path, indx, delay) ==
    IF indx >= Len(path) - 1
    THEN [err |-> "none", val |-> delay]
    ELSE IF <<path[indx + 1], path[indx + 2]>> \notin DOMAIN link_delay
         THEN [err |-> "KeyError", val |-> delay]
         ELSE PathDelayLoop(path, indx + 1,
                  delay + link_delay[<<path[indx + 1], path[indx + 2]>>])

path_delay_skip(s, t) == PathDelayLoop(shortest_path[s][t], 1, 0)

path_delay(s, t) == PathDelayLoop(shortest_path[s][t], 0, 0)

\* ------------------------------------------------------------------------
\* Cache capacities, from the construction on
\* ------------------------------------------------------------------------
\* The ring after NetworkModel.__init__: its caches are those the constructor
\* builds from the cache sizes 3 (router 1) and 0 (router 2) of the topology
InitCap ==
    /\ topology_nodes = RingNodes
    /\ topology_attr = RingAttr
    /\ topology_edge = RingEdges
    /\ link_delay = BothDirections(RingEdges, "delay")
    /\ link_type = BothDirections(RingEdges, "type")
    /\ shortest_path =
           symmetrify_paths(
               all_pairs_dijkstra_path(RingNodes, DOMAIN RingEdges, {}),
               RingNodes).sp
    /\ cache = NetworkModel(Topology("repo", {}), 0, 1, 0).model.cache
    /\ local_cache = EmptyDict
    /\ source_node =
           NetworkModel(Topology("repo", {}), 0, 1, 0).model.source_node
    /\ content_source =
           NetworkModel(Topology("repo", {}), 0, 1, 0).model.content_source
    /\ InitFaultState
    /\ InitHist /\ InitCtl(FALSE) /\ InitNoLabels /\ InitExt

MaxCapOps == 3

NextCap ==
    \/ \E k \in 0 .. RatioDen, mode \in RoundModes :
          nOps < MaxCapOps /\ ReserveLocalCache(k, mode)
    \/ \E v \in Nodes : nOps < MaxCapOps /\ RemoveNode(v, FALSE)
    \/ \E v \in Nodes : nOps < MaxCapOps /\ RestoreNode(v, FALSE)

SpecCap == InitCap /\ [][NextCap]_vars

\* ------------------------------------------------------------------------
\* Request labels and the stored-label indices
\* ------------------------------------------------------------------------
\* for label in service_request['labels']:
\*     request_labels_nodes[label].update([s])
RECURSIVE count_label_nodes(_, _, _, _)
count_label_nodes(rln, s, labels, i) ==
    IF i > Len(labels) THEN rln
    ELSE count_label_nodes(
             Put(rln, labels[i],
                 CounterInc(IF labels[i] \in DOMAIN rln THEN rln[labels[i]]
                            ELSE EmptyDict, s)),
             s, labels, i + 1)

\* add_request_labels_to_node(s, service_request).  type(..) is not Counter()
\* compares a class with an instance and is always true: the counter of s
\* is a fresh Counter() at every call, whether s had one or not.
add_request_labels_to_node(s, labels) ==
    [request_labels |->
         Put(request_labels, s, count_labels(EmptyDict, labels, 1)),
     request_labels_nodes |->
         count_label_nodes(request_labels_nodes, s, labels, 1)]

\* The labels of the list that are keys of request_labels[s], in list order
Deletion(s, labels) ==
    SelectSeq(labels, LAMBDA l : l \in DOMAIN request_labels[s])

\* The indexing that updates node_labels and leaves labels_sources alone
store_request_labels_one_index(s, matched) ==
    [node_labels |-> add_storage_labels_to_node(s, matched).node_labels,
     labels_sources |-> labels_sources]

\* if add: node_labels[s].update([label]); labels_sources[label].update([s])
\* for each label of the list that s has requested
store_request_labels(s, matched) ==
    add_storage_labels_to_node(s, matched)

\* add_request_labels_to_storage(s, labels, add): request_labels[s] raises
\* KeyError at the first label when s has no request counter
add_request_labels_to_storage(s, labels, add) ==
    IF labels = <<>>
    THEN [err |-> "none", node_labels |-> node_labels,
          labels_sources |-> labels_sources,
          request_labels |-> request_labels]
    ELSE IF s \notin DOMAIN request_labels
    THEN [err |-> "KeyError", node_labels |-> node_labels,
          labels_sources |-> labels_sources,
          request_labels |-> request_labels]
    ELSE [err |-> "none",
          node_labels |->
              IF add /\ Deletion(s, labels) # <<>>
              THEN store_request_labels(s, Deletion(s, labels)).node_labels
              ELSE node_labels,
          labels_sources |->
              IF add /\ Deletion(s, labels) # <<>>
              THEN store_request_labels(s, Deletion(s, labels)).labels_sources
              ELSE labels_sources,
          request_labels |->
              Put(request_labels, s,
                  Restrict(request_labels[s],
                           (DOMAIN request_labels[s])
                               \ SeqToSet(Deletion(s, labels))))]

ReqStep(op) ==
    /\ lastOp' = op
    /\ nOps' = nOps + 1
    /\ UNCHANGED <<topoVars, storeVars, ctlVars, histVars, ctlHist, repoVars,
                   queueVars, viewVars, runVars, replVars, answer>>

AddRequestLabelsToNode(s, labels) ==
    /\ request_labels' = add_request_labels_to_node(s, labels).request_labels
    /\ request_labels_nodes' =
           add_request_labels_to_node(s, labels).request_labels_nodes
    /\ err' = "none"
    /\ UNCHANGED <<node_labels, labels_sources>>
    /\ ReqStep(Call("add_request_labels_to_node", s, NoNode, FALSE, "", ""))

AddRequestLabelsToStorage(s, labels, add) ==
    /\ node_labels' = add_request_labels_to_storage(s, labels, add).node_labels
    /\ labels_sources' =
           add_request_labels_to_storage(s, labels, add).labels_sources
    /\ request_labels' =
           add_request_labels_to_storage(s, labels, add).request_labels
    /\ err' = add_request_labels_to_storage(s, labels, add).err
    /\ UNCHANGED request_labels_nodes
    /\ ReqStep(Call("add_request_labels_to_storage", s, NoNode, add, "", ""))

\* The nodes the label calls are made on: repository 1, which holds
\* labelled content, and router 2, which holds none
ReqNodes == {1, 2}

\* After NetworkModel.__init__ on the ring with repository 1 and source 3
InitReq ==
    /\ InitRing /\ InitHist /\ InitCtl(FALSE)
    /\ InitNoRepo /\ InitQueue /\ InitNoView /\ InitNoRun /\ InitNoRepl
    /\ InitNoReq
    /\ node_labels = NetworkModel(Topology("repo", {}), 0, 1, 0).model.node_labels
    /\ labels_sources =
           NetworkModel(Topology("repo", {}), 0, 1, 0).model.labels_sources
    /\ answer = NoAnswer

MaxReqOps == 2

NextReq ==
    \/ \E s \in ReqNodes, labels \in LabelLists :
          nOps < MaxReqOps /\ AddStorageLabelsToNode(s, labels)
    \/ \E s \in ReqNodes, labels \in LabelLists :
          nOps < MaxReqOps /\ AddRequestLabelsToNode(s, labels)
    \/ \E s \in ReqNodes, labels \in LabelLists, add \in BOOLEAN :
          nOps < MaxReqOps /\ AddRequestLabelsToStorage(s, labels, add)

SpecReq == InitReq /\ [][NextReq]_vars

\* Request labels recorded by add_request_labels_to_node alone
MaxCountOps == 2

NextCount ==
    \E s \in ReqNodes, labels \in LabelLists :
        nOps < MaxCountOps /\ AddRequestLabelsToNode(s, labels)

SpecCount == InitReq /\ [][NextCount]_vars

\* ------------------------------------------------------------------------
\* has_request_labels: are all the labels of a list recorded at a node?
\* ------------------------------------------------------------------------
\* for label in labels: if label in self.model.request_labels[s]:
\*     all_in.append(label)
RECURSIVE all_in(_, _, _)
all_in(s, labels, i) ==
    IF i > Len(labels) THEN <<>>
    ELSE IF labels[i] \in DOMAIN request_labels[s]
         THEN <<labels[i]>> \o all_in(s, labels, i + 1)
         ELSE all_in(s, labels, i + 1)

\* for label in all_in: for l in labels: if l == label: n += 1
RECURSIVE count_equal(_, _, _)
count_equal(found, labels, i) ==
    IF i > Len(found) THEN 0
    ELSE Cardinality({j \in 1 .. Len(labels) : labels[j] = found[i]})
             + count_equal(found, labels, i + 1)

\* The first loop returns False as soon as it meets a node without an entry
\* in request_labels, which it does only when the list has a label
has_request_labels(s, labels) ==
    IF labels # <<>> /\ s \notin DOMAIN request_labels THEN FALSE
    ELSE count_equal(all_in(s, labels, 1), labels, 1) = Len(labels)

NoHas == [kind |-> "none", s |-> NoNode, labels |-> <<>>, val |-> FALSE]

HasRequestLabels(s, labels) ==
    /\ answer' = [kind |-> "has", s |-> s, labels |-> labels,
                  val |-> has_request_labels(s, labels)]
    /\ err' = "none"
    /\ lastOp' = Call("has_request_labels", s, NoNode, FALSE, "", "")
    /\ nOps' = nOps + 1
    /\ UNCHANGED <<node_labels, labels_sources, topoVars, storeVars, ctlVars,
                   histVars, ctlHist, extVars>>

InitHas ==
    /\ InitRing /\ InitHist /\ InitCtl(FALSE) /\ InitExt
    /\ node_labels = NetworkModel(Topology("repo", {}), 0, 1, 0).model.node_labels
    /\ labels_sources =
           NetworkModel(Topology("repo", {}), 0, 1, 0).model.labels_sources
    /\ answer = NoHas

MaxHasOps == 2

NextHas ==
    \/ \E s \in ReqNodes, labels \in LabelLists :
          nOps < MaxHasOps /\ AddRequestLabelsToNode(s, labels)
    \/ \E s \in ReqNodes, labels \in LabelLists :
          nOps < MaxHasOps /\ HasRequestLabels(s, labels)

SpecHas == InitHas /\ [][NextHas]_vars

\* ------------------------------------------------------------------------
\* NetworkView: the rankings of label-matching storage nodes
\* ------------------------------------------------------------------------
\* The repositories of the ring whose labels and storage the rankings read
RankNodes == {1, 2}

NoMsg == [labels |-> {}, service_type |-> "none"]

\* The storage holds nothing, a processed message or one still to process
Stores ==
    {{}, {[labels |-> {"news"}, service_type |-> "processed"]},
     {[labels |-> {"news"}, service_type |-> "non-proc"]}}

\* repoStorage[n].hasMessage(None, labels): a stored message that carries
\* every label of the list, None when there is none
hasMessage(store, labels) ==
    IF \E m \in store : SeqToSet(labels) \subseteq m.labels
    THEN CHOOSE m \in store : SeqToSet(labels) \subseteq m.labels
    ELSE NoMsg

\* repoStorage[n].getProcessedMessages(labels)
getProcessedMessages(store, labels) ==
    {m \in store : /\ m.service_type = "processed"
                   /\ SeqToSet(labels) \subseteq m.labels}

\* if hasMessage(None, labels): ... if msg['service_type'] is "processed"
Processed(n, labels) ==
    /\ hasMessage(repoStorage[n], labels) # NoMsg
    /\ hasMessage(repoStorage[n], labels).service_type = "processed"

\* hops = len(self.shortest_path(node, n))
hops_from(node) == [n \in Nodes |-> Len(shortest_path[node][n])]

\* current_hops = float('inf'), never assigned again
current_hops == PosInf

NoRank ==
    [kind |-> "none", f |-> "", in_path |-> FALSE, auth_node |-> NoNode,
     count |-> 0, cands |-> <<>>, labels |-> <<>>, node |-> NoNode,
     path |-> <<>>, on_path |-> FALSE]

Ranked(r, f, cands, labels, node, path, on_path) ==
    [kind |-> "rank", f |-> f, in_path |-> r.in_path,
     auth_node |-> r.auth_node, count |-> r.count, cands |-> cands,
     labels |-> labels, node |-> node, path |-> path, on_path |-> on_path]

NoneFound == [in_path |-> FALSE, auth_node |-> NoNode, count |-> 0]

Found(in_path, n) == [in_path |-> in_path, auth_node |-> n, count |-> 0]

\* The second loop of service_labels_closest_repo over nodes, in scan order
RECURSIVE closest_repo_scan(_, _, _, _, _, _)
closest_repo_scan(seq, hops, path, on_path, i, acc) ==
    IF i > Len(seq) THEN acc
    ELSE closest_repo_scan(seq, hops, path, on_path, i + 1,
             IF IsSrcId(seq[i]) THEN acc
             ELSE IF on_path
             THEN IF /\ InSeq(seq[i], path)
                     /\ FloatLt(Num(hops[seq[i]]), current_hops)
                  THEN Found(TRUE, seq[i]) ELSE acc
             ELSE IF /\ InSeq(seq[i], path)
                     /\ FloatLt(Num(hops[seq[i]]), current_hops)
             THEN Found(TRUE, seq[i])
             ELSE IF FloatLt(Num(hops[seq[i]]), current_hops)
             THEN Found(FALSE, seq[i]) ELSE acc)

\* The scan that takes an off-path node although on_path is asked for
RECURSIVE most_services_scan_any(_, _, _, _, _, _)
most_services_scan_any(seq, hops, path, on_path, i, acc) ==
    IF i > Len(seq) THEN acc
    ELSE most_services_scan_any(seq, hops, path, on_path, i + 1,
                                Found(InSeq(seq[i], path), seq[i]))

\* The last loop of most_services_labels_closest_repo
RECURSIVE most_services_scan(_, _, _, _, _, _)
most_services_scan(seq, hops, path, on_path, i, acc) ==
    IF i > Len(seq) THEN acc
    ELSE most_services_scan(seq, hops, path, on_path, i + 1,
             IF IsSrcId(seq[i]) THEN acc
             ELSE IF on_path
             THEN IF InSeq(seq[i], path) THEN Found(TRUE, seq[i]) ELSE acc
             ELSE IF /\ InSeq(seq[i], path)
                     /\ FloatLt(Num(hops[seq[i]]), current_hops)
             THEN Found(TRUE, seq[i])
             ELSE IF FloatLt(Num(hops[seq[i]]), current_hops)
             THEN Found(FALSE, seq[i]) ELSE acc)

\* service_labels_closest_repo(labels, node, path, on_path), the Counter
\* returned by labels_sources(labels) being scanned in the given order:
\* the nodes kept by the first loop, then the scan
service_labels_closest_repo(order, labels, node, path, on_path) ==
    closest_repo_scan(SelectSeq(order, LAMBDA n : Processed(n, labels)),
                      hops_from(node), path, on_path, 1, NoneFound)

\* most_services_labels_closest_repo: the nodes with at least one processed
\* message are kept; those with a processed message get their hops as
\* value, the others keep the number of processed messages
most_services_value(n, labels, node) ==
    IF Processed(n, labels) THEN hops_from(node)[n]
    ELSE Cardinality(getProcessedMessages(repoStorage[n], labels))

most_services_labels_closest_repo(order, labels, node, path, on_path) ==
    most_services_scan(
        SelectSeq(order,
                  LAMBDA n : getProcessedMessages(repoStorage[n], labels) # {}),
        [n \in Nodes |->
            IF n \in DOMAIN repoStorage
            THEN most_services_value(n, labels, node) ELSE 0],
        path, on_path, 1, NoneFound)

\* The loop of all_labels_main_source with 'count > current_count'
RECURSIVE main_source_scan_strict(_, _, _, _)
main_source_scan_strict(seq, counts, i, acc) ==
    IF i > Len(seq) THEN acc
    ELSE main_source_scan_strict(seq, counts, i + 1,
             IF counts[seq[i]] > acc.count
             THEN [in_path |-> FALSE, auth_node |-> seq[i],
                   count |-> counts[seq[i]]]
             ELSE acc)

\* for n in labels_sources(labels): if count >= current_count: ...
\* acc.count is current_count; the node stands for its storage
RECURSIVE main_source_scan(_, _, _, _)
main_source_scan(seq, counts, i, acc) ==
    IF i > Len(seq) THEN acc
    ELSE main_source_scan(seq, counts, i + 1,
             IF counts[seq[i]] >= acc.count
             THEN IF IsSrcId(seq[i])
                  THEN [acc EXCEPT !.auth_node = seq[i]]
                  ELSE [in_path |-> FALSE, auth_node |-> seq[i],
                        count |-> counts[seq[i]]]
             ELSE acc)

all_labels_main_source(order, labels) ==
    main_source_scan(order, labels_sources_view(labels).nodes, 1, NoneFound)

\* A ranking call; labels_sources raises KeyError for a label that is not
\* indexed and repoStorage[n] for a node without storage
RankCall(f, r, order, labels, node, path, on_path) ==
    /\ IF labels_sources_view(labels).err # "none"
       THEN /\ err' = labels_sources_view(labels).err
            /\ answer' = [NoRank EXCEPT !.kind = "raised", !.f = f]
       ELSE IF \E i \in 1 .. Len(order) : order[i] \notin DOMAIN repoStorage
       THEN /\ err' = "KeyError"
            /\ answer' = [NoRank EXCEPT !.kind = "raised", !.f = f]
       ELSE /\ err' = "none"
            /\ answer' = r
    /\ UNCHANGED <<node_labels, labels_sources>>
    /\ lastOp' = Call(f, node, NoNode, on_path, "", "")
    /\ nOps' = nOps + 1
    /\ UNCHANGED <<topoVars, storeVars, ctlVars, histVars, ctlHist, extVars>>

ServiceLabelsClosestRepo(order, labels, node, path, on_path) ==
    RankCall("service_labels_closest_repo",
             Ranked(service_labels_closest_repo(order, labels, node, path,
                                                on_path),
                    "service_labels_closest_repo",
                    SelectSeq(order, LAMBDA n : Processed(n, labels)),
                    labels, node, path, on_path),
             order, labels, node, path, on_path)

MostServicesLabelsClosestRepo(order, labels, node, path, on_path) ==
    RankCall("most_services_labels_closest_repo",
             Ranked(most_services_labels_closest_repo(order, labels, node,
                                                      path, on_path),
                    "most_services_labels_closest_repo",
                    SelectSeq(order,
                              LAMBDA n : getProcessedMessages(repoStorage[n],
                                                              labels) # {}),
                    labels, node, path, on_path),
             order, labels, node, path, on_path)

AllLabelsMainSource(order, labels) ==
    RankCall("all_labels_main_source",
             Ranked(all_labels_main_source(order, labels),
                    "all_labels_main_source", order, labels, NoNode, <<>>,
                    FALSE),
             order, labels, NoNode, <<>>, FALSE)

MaxLabelCount == 2

\* The question asked: one label, once or twice, or a label no node holds
RankLabels == {<<"news">>, <<"news", "news">>, <<"sports">>}

\* The reference nodes of the questions
RankFrom == {0, 1}

\* The scan orders of the Counter labels_sources(labels) returns
ScanOrders(labels) == Orders(DOMAIN labels_sources_view(labels).nodes)

\* Ring with repositories 1 and 2 holding the label "news" cnt[n] times
InitRank ==
    /\ InitRing /\ InitHist /\ InitCtl(FALSE) /\ InitQueue /\ InitNoView
    /\ InitNoRun /\ InitNoRepl /\ InitNoReq
    /\ contents = EmptyDict
    /\ \E cnt \in [RankNodes -> 0 .. MaxLabelCount] :
          /\ node_labels =
                 [n \in RankNodes |->
                     IF cnt[n] > 0 THEN "news" :> cnt[n] ELSE EmptyDict]
          /\ labels_sources =
                 IF \E n \in RankNodes : cnt[n] > 0
                 THEN "news" :> Restrict(cnt, {n \in RankNodes : cnt[n] > 0})
                 ELSE EmptyDict
    /\ repoStorage \in [RankNodes -> Stores]
    /\ answer = NoRank

\* One question is asked of each network: a ranking reads the model and
\* changes nothing in it
NextRank ==
    \/ \E labels \in RankLabels, node \in RankFrom, t \in Nodes,
          on_path \in BOOLEAN :
          \E order \in ScanOrders(labels) :
             /\ answer = NoRank
             /\ ServiceLabelsClosestRepo(order, labels, node,
                                         shortest_path[node][t], on_path)
    \/ \E labels \in RankLabels, node \in RankFrom, t \in Nodes,
          on_path \in BOOLEAN :
          \E order \in ScanOrders(labels) :
             /\ answer = NoRank
             /\ MostServicesLabelsClosestRepo(order, labels, node,
                                              shortest_path[node][t], on_path)
    \/ \E labels \in RankLabels :
          \E order \in ScanOrders(labels) :
             answer = NoRank /\ AllLabelsMainSource(order, labels)

SpecRank == InitRank /\ [][NextRank]_vars

\* ------------------------------------------------------------------------
\* Replication hops and replication overhead
\* ------------------------------------------------------------------------
\* for c in contents[node]: replication_hops[contents[node][c]['content']] = 1
RECURSIVE originated_hops(_, _, _)
originated_hops(hops, cs, i) ==
    IF i > Len(cs) THEN hops
    ELSE originated_hops(Put(hops, cs[i].content, 1), cs, i + 1)

\* replication_hops.update([content['content']])
add_replication_hops(hops, content) == CounterInc(hops, content.content)

\* replication_hops[content['content']] = 0
remove_replication_hops(hops, content) == Put(hops, content.content, 0)

\* The update that stores hops * msg_size whatever was accumulated
replication_overhead_overwrite(overheads, hops, content) ==
    Put(overheads, content.content,
        CounterGet(hops, content.content) * content.msg_size)

replication_overhead_update(overheads, hops, content) ==
    IF content.content \in DOMAIN overheads
    THEN Put(overheads, content.content,
             overheads[content.content]
                 + CounterGet(hops, content.content) * content.msg_size)
    ELSE Put(overheads, content.content,
             CounterGet(hops, content.content) * content.msg_size)

MaxMsgSize == 2

\* The messages passed to the three methods
ReplMessages == [content : MessageIds, msg_size : 1 .. MaxMsgSize]

ReplStep(op) ==
    /\ lastOp' = op
    /\ nOps' = nOps + 1
    /\ UNCHANGED <<topoVars, storeVars, ctlVars, labelVars, histVars, ctlHist,
                   repoVars, queueVars, viewVars, runVars, reqVars, err>>

AddReplicationHops(content) ==
    /\ replication_hops' = add_replication_hops(replication_hops, content)
    /\ UNCHANGED replication_overheads
    /\ ReplStep(Call("add_replication_hops", content.msg_size, 0, FALSE,
                     content.content, ""))

RemoveReplicationHops(content) ==
    /\ replication_hops' = remove_replication_hops(replication_hops, content)
    /\ UNCHANGED replication_overheads
    /\ ReplStep(Call("remove_replication_hops", content.msg_size, 0, FALSE,
                     content.content, ""))

ReplicationOverheadUpdate(content) ==
    /\ replication_overheads' =
           replication_overhead_update(replication_overheads,
                                       replication_hops, content)
    /\ UNCHANGED replication_hops
    /\ ReplStep(Call("replication_overhead_update", content.msg_size, 0,
                     FALSE, content.content, ""))

\* After NetworkModel.__init__ on the ring whose nodes 1 and 3 hold the
\* labelled contents
InitRepl ==
    /\ InitRing /\ InitHist /\ InitCtl(FALSE) /\ InitNoLabels
    /\ InitNoRepo /\ InitQueue /\ InitNoView /\ InitNoRun /\ InitNoReq
    /\ replication_hops =
           originated_hops(originated_hops(EmptyDict, RepoContents[1], 1),
                           RepoContents[3], 1)
    /\ replication_overheads = EmptyDict

MaxReplOps == 4

NextRepl ==
    \/ \E content \in ReplMessages :
          nOps < MaxReplOps /\ AddReplicationHops(content)
    \/ \E content \in ReplMessages :
          nOps < MaxReplOps /\ RemoveReplicationHops(content)
    \/ \E content \in ReplMessages :
          nOps < MaxReplOps /\ ReplicationOverheadUpdate(content)

SpecRepl == InitRepl /\ [][NextRepl]_vars

\* ------------------------------------------------------------------------
\* Properties
\* ------------------------------------------------------------------------
CurrentNodes == SeqToSet(topology_nodes)

\* C1: after construction and after every remove_link, restore_link,
\* rewire_link, remove_node or restore_node executed with recompute_paths =
\* true, for every pair of nodes (u, v) of the current topology the stored
\* shortest_path(u, v) is the reverse of shortest_path(v, u); when the call
\* completed, a path is stored for every pair.
C1_PathSymmetry ==
    (lastOp.op = "init" \/ lastOp.rp) =>
        \A u, v \in CurrentNodes :
            /\ (u \in DOMAIN shortest_path /\ v \in DOMAIN shortest_path[u]) =>
                   /\ v \in DOMAIN shortest_path
                   /\ u \in DOMAIN shortest_path[v]
                   /\ shortest_path[u][v] = Reverse(shortest_path[v][u])
            /\ err = "none" =>
                   (u \in DOMAIN shortest_path /\ v \in DOMAIN shortest_path[u])

\* C1 witness: a topology edit with recomputation completed on a topology
\* in which some pair of nodes has two equally short paths
C1_Witness ==
    /\ lastOp.op = "restore_link"
    /\ lastOp.rp
    /\ err = "none"
    /\ \E u, v \in CurrentNodes :
          Cardinality(ShortestBetween(CurrentNodes, DOMAIN topology_edge,
                                      u, v)) > 1

\* C2: remove_node(v) followed by restore_node(v) completes and reproduces
\* the node set, the edge set and the cache, local-cache and source
\* assignment (source_node and content_source) that held before the removal.
C2_RoundTrip ==
    rt.phase = "restored" =>
        /\ ~rt.failed
        /\ rt.nodes = CurrentNodes
        /\ rt.edge = topology_edge
        /\ rt.cache = cache
        /\ rt.local_cache = local_cache
        /\ rt.source_node = source_node
        /\ rt.content_source = content_source

\* C3: a link incident to v removed with remove_link (in either endpoint
\* order) before remove_node(v) is not put back by restore_node(v): it stays
\* absent from the topology and recorded in removed_links, while every link
\* that remove_node(v) itself removed is restored.
C3_IndependentLinkStays ==
    lastOp.op = "restore_node" =>
        /\ \A k \in indep[lastOp.v] :
              /\ k \in DOMAIN removed_links
              /\ Key(k) \notin DOMAIN topology_edge
        /\ \A u \in casc[lastOp.v] :
              Edge(lastOp.v, u) \in DOMAIN topology_edge

\* C3 witness: restore_node(v) ran for a node that had both a link removed
\* independently beforehand and a link removed by remove_node(v) itself
C3_Witness ==
    /\ lastOp.op = "restore_node"
    /\ indep[lastOp.v] # {}
    /\ casc[lastOp.v] # {}
    /\ \E k \in indep[lastOp.v] : k[1] = lastOp.v
    /\ err = "none"

\* C4: start_session(flow_id) immediately followed by end_session(flow_id)
\* leaves no session entry for flow_id, and the entries of all other live
\* sessions are as they were before the pair.
C4_SessionHygiene ==
    pair.phase = "ended" =>
        /\ pair.f \notin DOMAIN session
        /\ \A f \in FlowIds \ {pair.f} :
              /\ f \in DOMAIN session <=> f \in DOMAIN pair.before
              /\ f \in DOMAIN session => session[f] = pair.before[f]

\* Number of notifications of one kind the collector has received
Count(ev) == Cardinality({i \in 1 .. Len(sink) : sink[i].ev = ev})

\* C5: on the 3-node path with a sink attached, start_session,
\* forward_request_path(0, 2), get_content(2, A), forward_content_path(2, 0),
\* end_session run to completion, get_content returns true, and the sink
\* has seen exactly one request hop, one content hop and one server hit at
\* node 2, with no session entry left.
C5_PathScenario ==
    /\ scen.stage >= 1 => ~scen.raised
    /\ scen.stage >= 3 => scen.got = "True"
    /\ scen.stage = 5 =>
          /\ Count("request_hop") = 1
          /\ Count("content_hop") = 1
          /\ Count("server_hit") = 1
          /\ \E i \in 1 .. Len(sink) : sink[i] = Ev("server_hit", 2, NoNode, "")
          /\ "0" \notin DOMAIN session

Capacity(caches, v) == IF v \in DOMAIN caches THEN caches[v].maxlen ELSE 0

\* C7: for every ratio in [0, 1] and every cache of capacity C that has not
\* been partitioned yet, after reserve_local_cache the coordinated capacity
\* plus the local capacity of the node (a missing partition counting 0)
\* differs from C by at most 1.
C7_PartitionConservation ==
    (lastOp.op = "reserve_local_cache" /\ err = "none") =>
        \A v \in DOMAIN resv :
            Capacity(cache, v) + Capacity(local_cache, v) - resv[v]
                \in -1 .. 1

\* C7 witness: a partition in which rounding makes the two capacities add up
\* to one more than the capacity partitioned
C7_Witness ==
    /\ lastOp.op = "reserve_local_cache"
    /\ err = "none"
    /\ \E v \in DOMAIN resv :
          /\ Capacity(cache, v) > 0
          /\ Capacity(local_cache, v) > 0
          /\ Capacity(cache, v) + Capacity(local_cache, v) = resv[v] + 1

\* Node n carries label l
Carries(n, l) ==
    n \in DOMAIN node_labels /\ l \in DOMAIN node_labels[n]
        /\ node_labels[n][l] > 0

CarriesAll(n, labels) == \A i \in 1 .. Len(labels) : Carries(n, labels[i])

PathLen(n) == Len(shortest_path[answer.from][n])

\* Position of source n in the content_source list of the asked content
SourceIndex(n) ==
    CHOOSE i \in 1 .. Len(content_source[answer.content]) :
        content_source[answer.content][i] = n

\* C10: closest_source(node, content) returns, for every content with at
\* least one source, a source whose shortest-path length from node is
\* minimal, the first such source of the content_source list.
C10_ClosestSource ==
    (/\ lastOp.op = "closest_source"
     /\ answer.content \in DOMAIN content_source
     /\ content_source[answer.content] # <<>>) =>
        /\ err = "none"
        /\ InSeq(answer.node, content_source[answer.content])
        /\ \A n \in SeqToSet(content_source[answer.content]) :
              /\ PathLen(answer.node) <= PathLen(n)
              /\ PathLen(answer.node) = PathLen(n) =>
                    SourceIndex(answer.node) <= SourceIndex(n)

\* The sum of link_delay over the hops i, i + 1 of path, for i in todo
RECURSIVE HopSum(_, _)
HopSum(path, todo) ==
    IF todo = {} THEN 0
    ELSE LET i == CHOOSE x \in todo : TRUE
         IN  link_delay[<<path[i], path[i + 1]>>] + HopSum(path, todo \ {i})

C11_NoSinkLegal ==
    (/\ ~collector
     /\ lastOp.op \in {"start_session", "end_session", "get_content"}) =>
        /\ err = "none"
        /\ lastOp.op = "end_session" => lastOp.f \notin DOMAIN session

\* C12: get_content(node, x) returns true whenever node is an origin of x,
\* whether the node has no cache or a cache that misses x.
C12_OriginAlwaysHit ==
    (/\ lastOp.op = "get_content"
     /\ lastOp.x \in DOMAIN content_source
     /\ InSeq(lastOp.u, content_source[lastOp.x])) =>
        /\ err = "none"
        /\ ret = "True"

\* C13: after add_message_to_storage(s, content) on a storage node s, the
\* content_source index lists s for the content id, also for an id that no
\* node held before.
C13_StorageIndexed ==
    (/\ lastOp.op = "add_message_to_storage"
     /\ lastOp.u \in DOMAIN repoStorage) =>
        /\ err = "none"
        /\ lastOp.x \in DOMAIN content_source
        /\ InSeq(lastOp.u, content_source[lastOp.x])

\* C14: add_event with a non-finite timestamp (+inf, -inf or NaN) fails and
\* leaves the event queue unchanged; with a finite timestamp it adds exactly
\* one event.
C14_NonFiniteRejected ==
    lastOp.op = "add_event" =>
        IF qlog.time.k = "num"
        THEN err = "none" /\ Len(eventQ) = Len(qlog.before) + 1
        ELSE err # "none" /\ eventQ = qlog.before

\* a <= b on floats
FloatLe(a, b) == FloatLt(a, b) \/ FloatEq(a, b)

\* C15: every pop returns an event whose time is less than or equal to the
\* time of every event still in the queue.
C15_PopIsMinimum ==
    (lastOp.op = "pop_event" /\ err = "none") =>
        \A i \in 1 .. Len(eventQ) : FloatLe(qlog.popped.time, eventQ[i].time)

\* C16: no NetworkView call changes state: the container and the fields of
\* the view are the same before and after every query, and creating the view
\* changes nothing in the container.
C16_ViewPure ==
    /\ lastOp.op = "NetworkView" => Container = vsnap.container
    /\ lastOp.op \in {"most_storage_labels_node", "content_source",
                      "content_locations"} => ViewSnapshot = vsnap

\* C19: content_locations(k) returns, for every known content, the union of
\* the persistent sources of the content and the nodes whose cache holds it.
C19_ContentLocations ==
    (/\ lastOp.op = "content_locations"
     /\ answer.content \in DOMAIN content_source) =>
        /\ err = "none"
        /\ answer.nodes = SeqToSet(content_source[answer.content])
                              \cup CacheLocations(answer.content)

\* C17: the number of interim snapshots requested equals the number of
\* positive multiples of 500 reached by the count of status-1 events, and an
\* event whose status is not 1 never causes a snapshot.
C17_SnapshotEvery500 ==
    /\ eng.interim = eng.n \div SnapshotEvery
    /\ (lastOp.op = "event" /\ lastOp.status # 1) => ~lastOp.snapshot

\* C18: process_event is called once per pair of the workload, in workload
\* order, the warm-up strategy's handler is never called, and the final
\* results are requested exactly once, when the workload is exhausted.
C18_OncePerEvent ==
    /\ eng.calls = eng.pos
    /\ eng.ordered
    /\ eng.warmup = 0
    /\ eng.final = (IF eng.done THEN 1 ELSE 0)

\* C18 witness: a workload of several events, of both statuses, has been
\* run to its end.
C18_Witness ==
    /\ eng.done
    /\ eng.pos >= 3
    /\ eng.n \in 1 .. eng.pos - 1

\* C20: two constructions from the same topology, policies and seed give
\* the same container (service catalog, content sources, label indices,
\* shortest paths, caches), and every construction leaves the event queue
\* empty.
C20_Deterministic ==
    /\ \A i, j \in DOMAIN built :
          built[i].input = built[j].input => built[i].model = built[j].model
    /\ \A i \in DOMAIN built : built[i].model.eventQ = <<>>

\* C20 witness: two constructions from the same arguments that built a
\* service catalog, the generator being in different states when they began.
C20_Witness ==
    \E i, j \in DOMAIN built :
        /\ i < j
        /\ built[i].input = built[j].input
        /\ built[i].rng_in # built[j].rng_in
        /\ built[i].model.err = "none"
        /\ Len(built[j].model.services) = MaxServices
        /\ built[j].model.content_source["B"] = <<1, 3>>

\* C21: with a sink attached and a live session, forward_request_path and
\* forward_content_path over the stored shortest path complete without error
\* and the sink has been told of every hop of the path.
C21_HopsReported ==
    (/\ lastOp.op \in {"forward_request_path", "forward_content_path"}
     /\ collector
     /\ session # EmptyDict
     /\ HasPath(lastOp.u, lastOp.v)) =>
        /\ err = "none"
        /\ \A i \in 1 .. Len(shortest_path[lastOp.u][lastOp.v]) - 1 :
              \E j \in 1 .. Len(sink) :
                  /\ sink[j].ev = (IF lastOp.op = "forward_request_path"
                                   THEN "request_hop" ELSE "content_hop")
                  /\ sink[j].u = shortest_path[lastOp.u][lastOp.v][i]
                  /\ sink[j].v = shortest_path[lastOp.u][lastOp.v][i + 1]

\* The outcome get_content(node, x) is to report: a cache hit when the cache
\* of the node holds x, else a server hit at an origin, else a miss
Outcome(node, x) ==
    IF node \in DOMAIN cache /\ cache_has(cache[node], x) THEN "cache_hit"
    ELSE IF node \in DOMAIN source_node THEN "server_hit"
    ELSE "cache_miss"

\* C22: with a sink attached, a get_content call completes and reports
\* exactly one outcome to the sink, the one that applies to the node.
C22_OneOutcomeReported ==
    [][(lastOp'.op = "get_content" /\ collector) =>
          /\ err' = "none"
          /\ sink' = Append(sink, Ev(Outcome(lastOp'.u, lastOp'.x), lastOp'.u,
                                     NoNode, ""))]_vars

\* C23: after a reserve_local_cache call with a ratio in [0, 1], a node whose
\* coordinated partition rounds to zero under that call has no entry in the
\* cache map, and a node whose local partition rounds to zero under that call
\* has no entry in the local-cache map.
C23_ZeroPartitionDropped ==
    [][(lastOp'.op = "reserve_local_cache" /\ err' = "none") =>
          \A v \in DOMAIN cache :
              /\ coordinated_maxlen(cache[v], lastOp'.u, lastOp'.x) = 0
                     => v \notin DOMAIN cache'
              /\ local_maxlen(cache[v], lastOp'.u, lastOp'.x) = 0
                     => v \notin DOMAIN local_cache']_vars

\* What node v owned in an active map before the call is now in the stash
\* map and no longer in the active map
Stashed(before, active, stash, v) ==
    /\ v \notin DOMAIN active
    /\ v \in DOMAIN before => v \in DOMAIN stash /\ stash[v] = before[v]

\* C24: after remove_node(v) on an active node, v is not in the graph, no
\* edge incident to v remains, every link that was incident to v has an entry
\* of its own in removed_links, the neighbours v had are recorded, and the
\* cache, local cache and source list of v are in the stash maps and not in
\* the active maps.
C24_RemoveNodeEffects ==
    (lastOp.op = "remove_node" /\ rt.phase = "removed") =>
        /\ ~InSeq(rt.node, topology_nodes)
        /\ \A e \in DOMAIN topology_edge : rt.node \notin e
        /\ \A e \in DOMAIN rt.edge :
              rt.node \in e =>
                  \E k \in DOMAIN removed_links :
                      /\ k[1] = rt.node
                      /\ Key(k) = e
                      /\ removed_links[k] = rt.edge[e]
        /\ rt.node \in DOMAIN disconnected_neighbors
        /\ disconnected_neighbors[rt.node] =
               {u \in Nodes : Edge(rt.node, u) \in DOMAIN rt.edge}
        /\ Stashed(rt.cache, cache, removed_caches, rt.node)
        /\ Stashed(rt.local_cache, local_cache, removed_local_caches, rt.node)
        /\ Stashed(rt.source_node, source_node, removed_sources, rt.node)

\* C24 witness: a router that had two links, a cache and a local cache has
\* been removed.
C24_Witness ==
    /\ lastOp.op = "remove_node"
    /\ rt.phase = "removed"
    /\ rt.node \in DOMAIN rt.cache
    /\ rt.node \in DOMAIN rt.local_cache
    /\ Cardinality({e \in DOMAIN rt.edge : rt.node \in e}) = 2

\* C25: restore_link on a link that remove_link removed, with the endpoints
\* in either order, completes, puts the edge back with its attributes and
\* leaves no entry for the link in removed_links.
C25_LinkRoundTrip ==
    [][lastOp'.op = "restore_link" =>
          /\ err' = "none"
          /\ topology_edge' =
                 Put(topology_edge, Edge(lastOp'.u, lastOp'.v),
                     RingEdges[Edge(lastOp'.u, lastOp'.v)])
          /\ <<lastOp'.u, lastOp'.v>> \notin DOMAIN removed_links'
          /\ <<lastOp'.v, lastOp'.u>> \notin DOMAIN removed_links']_vars

\* C26: remove_link, restore_link, rewire_link, remove_node and restore_node
\* called with recompute_paths = false leave the stored shortest paths
\* exactly as they were.
C26_PathsKept ==
    [][(/\ lastOp'.op \in {"remove_link", "restore_link", "rewire_link",
                           "remove_node", "restore_node"}
        /\ ~lastOp'.rp) => shortest_path' = shortest_path]_vars

\* C26 witness: after a call without recomputation the stored paths still
\* use a link that is no longer in the topology.
C26_Witness ==
    /\ lastOp.op \in {"remove_link", "rewire_link", "remove_node"}
    /\ ~lastOp.rp
    /\ err = "none"
    /\ \E u, v \in DOMAIN shortest_path :
          /\ v \in DOMAIN shortest_path[u]
          /\ \E i \in 1 .. Len(shortest_path[u][v]) - 1 :
                Edge(shortest_path[u][v][i], shortest_path[u][v][i + 1])
                    \notin DOMAIN topology_edge

\* C27: when the last edit of a sequence has been made, the container on
\* which only that edit recomputed the paths has the same topology and the
\* same shortest paths as the one on which every edit recomputed them.
C27_DeferredEqualsEager ==
    (lastOp.op # "init" /\ lastOp.rp) =>
        /\ twin.m.nodes = topology_nodes
        /\ twin.m.edge = topology_edge
        /\ twin.m.sp = shortest_path

\* C28: the hop count of each originated content is 1 after construction;
\* add_replication_hops(content) raises the hop count of the content by 1;
\* replication_overhead_update(content) adds hops(content) * msg_size to the
\* accumulator of the content, which starts from 0 when the content has none,
\* and leaves the accumulator of every other content as it was.
C28_OverheadAccumulates ==
    /\ \A c \in Contents : CounterGet(replication_hops, c) = 1
    /\ [][/\ lastOp'.op = "add_replication_hops" =>
                CounterGet(replication_hops', lastOp'.x)
                    = CounterGet(replication_hops, lastOp'.x) + 1
          /\ lastOp'.op = "replication_overhead_update" =>
                /\ DOMAIN replication_overheads'
                       = (DOMAIN replication_overheads) \cup {lastOp'.x}
                /\ replication_overheads'[lastOp'.x]
                       = CounterGet(replication_overheads, lastOp'.x)
                             + CounterGet(replication_hops, lastOp'.x)
                                   * lastOp'.u
                /\ \A d \in DOMAIN replication_overheads :
                      d # lastOp'.x =>
                          replication_overheads'[d] = replication_overheads[d]
         ]_vars

\* An update of a content that already had a positive accumulator, made
\* after its hop count was raised, while another content has one too
C28_Witness ==
    /\ lastOp.op = "replication_overhead_update"
    /\ lastOp.x = "A" /\ lastOp.u = 2
    /\ CounterGet(replication_hops, "A") = 2
    /\ "A" \in DOMAIN replication_overheads
    /\ replication_overheads["A"] = 5
    /\ "B" \in DOMAIN replication_overheads
    /\ replication_overheads["B"] > 0

\* C29: node n is listed in content_source[c] exactly when c is listed in
\* source_node[n], and no node is listed twice in content_source[c].
C29_SourcesInverse ==
    /\ \A c \in DOMAIN content_source :
          \A i \in 1 .. Len(content_source[c]) :
              /\ content_source[c][i] \in DOMAIN source_node
              /\ InSeq(c, source_node[content_source[c][i]])
              /\ \A j \in 1 .. Len(content_source[c]) :
                    content_source[c][i] = content_source[c][j] => i = j
    /\ \A n \in DOMAIN source_node :
          \A i \in 1 .. Len(source_node[n]) :
              /\ source_node[n][i] \in DOMAIN content_source
              /\ InSeq(n, content_source[source_node[n][i]])

\* C30: for every node n and label l, the count of l in node_labels[n]
\* equals the count of n in labels_sources[l] (a missing entry counts 0).
C30_LabelIndicesInverse ==
    /\ DOMAIN node_labels \subseteq Nodes
    /\ DOMAIN labels_sources \subseteq Labels
    /\ \A n \in Nodes, l \in Labels :
          CounterGet(IF n \in DOMAIN node_labels THEN node_labels[n]
                     ELSE EmptyDict, l)
              = CounterGet(IF l \in DOMAIN labels_sources
                           THEN labels_sources[l] ELSE EmptyDict, n)
    /\ \A n \in DOMAIN node_labels : DOMAIN node_labels[n] \subseteq Labels
    /\ \A l \in DOMAIN labels_sources : DOMAIN labels_sources[l] \subseteq Nodes

\* The second call made, add_request_labels_to_storage, has stored twice a
\* label that node 2 had requested and held no label of before, next to the
\* indices of the construction
C30_Witness ==
    /\ lastOp.op = "add_request_labels_to_storage" /\ lastOp.rp
    /\ lastOp.u = 2 /\ err = "none"
    /\ nOps = 2
    /\ 2 \in DOMAIN request_labels
    /\ "news" \notin DOMAIN request_labels[2]
    /\ 2 \in DOMAIN node_labels
    /\ CounterGet(node_labels[2], "news") = 2
    /\ CounterGet(labels_sources["news"], 2) = 2
    /\ CounterGet(node_labels[3], "news") = 2

\* C31: after any sequence of add_request_labels_to_node calls, the count of
\* label l in request_labels[s] equals the count of node s in
\* request_labels_nodes[l] (the number of times l was recorded at s).
C31_RequestCountersAgree ==
    \A s \in Nodes, l \in Labels :
        CounterGet(IF s \in DOMAIN request_labels THEN request_labels[s]
                   ELSE EmptyDict, l)
            = CounterGet(IF l \in DOMAIN request_labels_nodes
                         THEN request_labels_nodes[l] ELSE EmptyDict, s)

\* C32: with on_path not requested, service_labels_closest_repo and
\* most_services_labels_closest_repo return, when there is a qualifying
\* candidate, the first candidate in scan order among those whose path from
\* the reference node is shortest.
C32_ClosestFirst ==
    (/\ answer.kind = "rank"
     /\ answer.f \in {"service_labels_closest_repo",
                      "most_services_labels_closest_repo"}
     /\ ~answer.on_path /\ answer.cands # <<>>) =>
        \E i \in 1 .. Len(answer.cands) :
            /\ answer.auth_node = answer.cands[i]
            /\ \A j \in 1 .. Len(answer.cands) :
                  /\ hops_from(answer.node)[answer.cands[j]]
                         >= hops_from(answer.node)[answer.cands[i]]
                  /\ j < i => hops_from(answer.node)[answer.cands[j]]
                                  > hops_from(answer.node)[answer.cands[i]]

\* C33: all_labels_main_source returns nothing only when no node matches the
\* labels; otherwise it returns the storage of a matching node whose count is
\* the largest, the last such node in scan order.
C33_MainSourceLastMax ==
    (answer.kind = "rank" /\ answer.f = "all_labels_main_source") =>
        IF answer.cands = <<>> THEN answer.auth_node = NoNode
        ELSE \E i \in 1 .. Len(answer.cands) :
                /\ answer.auth_node = answer.cands[i]
                /\ \A j \in 1 .. Len(answer.cands) :
                      /\ labels_sources_view(answer.labels).nodes[answer.cands[j]]
                             <= labels_sources_view(answer.labels).nodes[answer.cands[i]]
                      /\ j > i =>
                            labels_sources_view(answer.labels).nodes[answer.cands[j]]
                                < labels_sources_view(answer.labels).nodes[answer.cands[i]]

\* Two nodes match with the same count, above 1, and the second one scanned
\* is returned
C33_Witness ==
    /\ answer.kind = "rank" /\ answer.f = "all_labels_main_source"
    /\ Len(answer.cands) = 2
    /\ answer.auth_node = answer.cands[2]
    /\ answer.count > 1
    /\ labels_sources_view(answer.labels).nodes[answer.cands[1]]
           = labels_sources_view(answer.labels).nodes[answer.cands[2]]

\* C34: in service_labels_closest_repo and most_services_labels_closest_repo,
\* when on_path is requested the node returned is on the path whenever a
\* qualifying candidate is, and is never off the path; in every case in_path
\* is true exactly when a node is returned and that node is on the path.
C34_OnPathPreferred ==
    (/\ answer.kind = "rank"
     /\ answer.f \in {"service_labels_closest_repo",
                      "most_services_labels_closest_repo"}) =>
        /\ answer.on_path =>
              /\ (\E i \in 1 .. Len(answer.cands) :
                      InSeq(answer.cands[i], answer.path))
                     => answer.auth_node # NoNode
              /\ answer.auth_node # NoNode
                     => InSeq(answer.auth_node, answer.path)
        /\ answer.in_path <=> (/\ answer.auth_node # NoNode
                               /\ InSeq(answer.auth_node, answer.path))

\* on_path is requested, the candidate scanned last is off the path and the
\* one scanned first, which is on it, is returned
C34_Witness ==
    /\ answer.kind = "rank"
    /\ answer.f = "most_services_labels_closest_repo"
    /\ answer.on_path /\ answer.in_path
    /\ Len(answer.cands) = 2
    /\ ~InSeq(answer.cands[2], answer.path)
    /\ answer.auth_node = answer.cands[1]

\* C35: reserve_local_cache with a ratio below 0 or above 1 raises an error
\* and leaves the cache map and the local-cache map, with the contents of
\* every cache, as they were.
C35_BadRatioRejected ==
    [][(/\ lastOp'.op = "reserve_local_cache"
        /\ (lastOp'.u < 0 \/ lastOp'.u > RatioDen)) =>
           /\ err' = "ValueError"
           /\ cache' = cache
           /\ local_cache' = local_cache]_vars

\* A ratio above 1 was refused while a cache held content and a local cache
\* existed
C35_Witness ==
    /\ lastOp.op = "reserve_local_cache" /\ lastOp.u > RatioDen
    /\ err = "ValueError"
    /\ local_cache # EmptyDict
    /\ \E v \in DOMAIN cache : cache[v].items # {}

\* C36: every cache of the cache map and of the local-cache map has a
\* capacity of at least 1, after construction and after any sequence of
\* reserve_local_cache, remove_node and restore_node calls.
C36_CapacityAtLeastOne ==
    /\ \A v \in DOMAIN cache : cache[v].maxlen >= 1
    /\ \A v \in DOMAIN local_cache : local_cache[v].maxlen >= 1

\* Router 2, whose size 0 the constructor clamped to 1, was removed after a
\* partition and has come back with its caches
C36_Witness ==
    /\ lastOp.op = "restore_node" /\ lastOp.v = 2 /\ err = "none"
    /\ local_cache # EmptyDict
    /\ 2 \in (DOMAIN cache) \cup (DOMAIN local_cache)

\* C37: when nodes are removed only while active and restored only while
\* removed, a node is in the graph exactly when it is not in removed_nodes,
\* and no link of the graph has a removed node as an endpoint.
C37_GraphMatchesRemoved ==
    /\ \A n \in Nodes : InSeq(n, topology_nodes) <=> n \notin DOMAIN removed_nodes
    /\ \A e \in DOMAIN topology_edge : e \cap DOMAIN removed_nodes = {}


\* C38: remove_link and remove_node with recompute_paths = true complete
\* without error even when the removal disconnects the network, and
\* afterwards a shortest path is stored exactly for the pairs of nodes that
\* are connected in the current topology, each stored path using only nodes
\* and links that are currently present.
C38_RemovalRecomputes ==
    (lastOp.op \in {"remove_link", "remove_node"} /\ lastOp.rp) =>
        /\ err = "none"
        /\ \A s, t \in CurrentNodes :
               HasPath(s, t) <=>
                   PathsBetween(CurrentNodes, DOMAIN topology_edge, s, t) # {}
        /\ \A s \in DOMAIN shortest_path :
               \A t \in DOMAIN shortest_path[s] :
                   shortest_path[s][t] \in
                       PathsBetween(CurrentNodes, DOMAIN topology_edge, s, t)

\* C39: after any sequence of remove_link, restore_link, rewire_link,
\* remove_node and restore_node, link_delay(a, b) and link_type(a, b) are
\* defined, in both directions, for every link (a, b) of the current
\* topology, so that path_delay is defined for every stored shortest path.
C39_LinkAttributesDefined ==
    /\ \A a, b \in Nodes :
           Edge(a, b) \in DOMAIN topology_edge =>
               /\ <<a, b>> \in DOMAIN link_delay
               /\ <<a, b>> \in DOMAIN link_type
    /\ \A s \in DOMAIN shortest_path :
           \A t \in DOMAIN shortest_path[s] :
               path_delay(s, t).err = "none"

\* C40: has_request_labels(s, labels), for a list with at least one label
\* (labels may be repeated in it), returns true exactly when every label of
\* the list is currently recorded in request_labels[s], and false when some
\* label is not recorded or node s has no recorded request labels.
C40_HasRequestLabels ==
    (lastOp.op = "has_request_labels" /\ answer.labels # <<>>) =>
        (answer.val <=>
            /\ answer.s \in DOMAIN request_labels
            /\ \A i \in 1 .. Len(answer.labels) :
                   answer.labels[i] \in DOMAIN request_labels[answer.s])
====
